---- MODULE Spec2Model ----
(***************************************************************************)
(* CineTCG deterministic match engine (src/src/cinetcg/engine/match.py)    *)
(* as a state machine.  The match state is one record `state`; every       *)
(* engine procedure that mutates MatchState in place is an operator from   *)
(* a state record to the state record after the call.                      *)
(***************************************************************************)
EXTENDS Integers, Sequences, FiniteSets, TLC

VARIABLES
    state,      \* the MatchState
    results,    \* the StepResult (ok, error) of every step call so far, and who made it
    submitted,  \* the action of every step call so far, in submission order
    setup,      \* the arguments new_match was called with
    pre,        \* the MatchState the latest step call was made on
    ai          \* the running ai_take_turn call (player, difficulty), or None

vars == <<state, results, submitted, setup, pre, ai>>

(***************************************************************************)
(* Values                                                                  *)
(***************************************************************************)
\* Python's None, for an empty board slot and for a missing target.
None == [none |-> TRUE]

\* MatchState.winner is None until the match ends (an int afterwards).
NoWinner == -1

\* TargetRef.slot is None for a player target.
NoSlot == -1

\* MatchState.opponent
opponent(player) == 1 - player

Min(a, b) == IF a <= b THEN a ELSE b
Max(a, b) == IF a >= b THEN a ELSE b

\* TargetRef.player_target / TargetRef.creature_target
player_target(player) == [kind |-> "player", player |-> player, slot |-> NoSlot]
creature_target(player, slot) == [kind |-> "creature", player |-> player, slot |-> slot]

\* The three action dataclasses.
PlayCardAction(player, hand_index, target) ==
    [type |-> "play", player |-> player, hand_index |-> hand_index, target |-> target]
AttackAction(player, attacker_slot, target) ==
    [type |-> "attack", player |-> player, attacker_slot |-> attacker_slot, target |-> target]
EndTurnAction(player) == [type |-> "end_turn", player |-> player]

(***************************************************************************)
(* Effects and the card catalog.  The catalog is an input of the engine;   *)
(* this one holds every effect kind, every keyword, and one spell with two *)
(* targeted effects.                                                       *)
(***************************************************************************)
DamageEffect(amount, target) == [type |-> "damage", amount |-> amount, target |-> target]
HealEffect(amount, target) == [type |-> "heal", amount |-> amount, target |-> target]
DrawEffect(count) == [type |-> "draw", count |-> count]
BuffEffect(attack_delta, health_delta, target) ==
    [type |-> "buff", attack_delta |-> attack_delta, health_delta |-> health_delta,
     target |-> target]
SummonEffect(token_card_id, count) ==
    [type |-> "summon", token_card_id |-> token_card_id, count |-> count]

CreatureStats(attack, health) == [attack |-> attack, health |-> health]

Creature(cost, keywords, attack, health) ==
    [type |-> "creature", cost |-> cost, keywords |-> keywords, effects |-> <<>>,
     creature_stats |-> CreatureStats(attack, health)]
Spell(cost, effects) ==
    [type |-> "spell", cost |-> cost, keywords |-> {}, effects |-> effects,
     creature_stats |-> None]

Cards ==
    [id \in {"extra", "bodyguard", "driver", "vampire", "bigshot", "stand_in",
             "crowd", "flashbang", "sniper", "pyro", "montage", "first_aid",
             "rewrite", "pep_talk", "heckle", "casting_call", "standoff",
             "crossfire", "reshoot", "retake"} |->
        CASE id = "extra"        -> Creature(0, {}, 1, 1)
          [] id = "bodyguard"    -> Creature(0, {"Guard"}, 1, 2)
          [] id = "driver"       -> Creature(1, {"Haste"}, 2, 1)
          [] id = "vampire"      -> Creature(1, {"Haste", "Lifesteal"}, 2, 2)
          [] id = "bigshot"      -> Creature(2, {}, 3, 3)
          [] id = "stand_in"     -> Creature(0, {"Token", "Guard"}, 0, 1)
          [] id = "crowd"        -> Creature(0, {"Token", "Haste"}, 1, 1)
          [] id = "flashbang"    -> Spell(0, <<DamageEffect(1, "any")>>)
          [] id = "sniper"       -> Spell(0, <<DamageEffect(2, "enemy_creature")>>)
          [] id = "pyro"         -> Spell(1, <<DamageEffect(3, "enemy_player")>>)
          [] id = "montage"      -> Spell(0, <<HealEffect(2, "self_player")>>)
          [] id = "first_aid"    -> Spell(0, <<HealEffect(1, "self_creature")>>)
          [] id = "rewrite"      -> Spell(1, <<DrawEffect(2)>>)
          [] id = "pep_talk"     -> Spell(0, <<BuffEffect(1, 1, "self_creature")>>)
          [] id = "heckle"       -> Spell(0, <<BuffEffect(-3, 0, "any_creature")>>)
          [] id = "casting_call" ->
                Spell(0, <<SummonEffect("stand_in", 1), SummonEffect("crowd", 2)>>)
          [] id = "standoff"     ->
                Spell(0, <<DamageEffect(3, "any"), DamageEffect(3, "enemy_player")>>)
          [] id = "crossfire"    ->
                Spell(0, <<DamageEffect(3, "any"), DamageEffect(3, "enemy_player"),
                           BuffEffect(1, 0, "self_creature")>>)
          [] id = "reshoot"      ->
                Spell(0, <<DrawEffect(1), DamageEffect(1, "enemy_creature")>>)
          [] id = "retake"       -> Spell(0, <<DrawEffect(1)>>)]

\* CardDatabase.get
CardGet(card_id) == Cards[card_id]

(***************************************************************************)
(* Sequence helpers for Python list operations                             *)
(***************************************************************************)
\* list.pop() whatever the index: the last entry goes.
ListPop_last(l, i) == SubSeq(l, 1, Len(l) - 1)

\* list.pop(i), 0-based
ListPop(l, i) == [k \in 1..(Len(l) - 1) |-> IF k <= i THEN l[k] ELSE l[k + 1]]

\* list.insert(i, x), 0-based, for 0 <= i (an index past the end appends)
ListInsert(l, i, x) ==
    LET j == Min(i, Len(l))
    IN  [k \in 1..(Len(l) + 1) |->
            IF k <= j THEN l[k] ELSE IF k = j + 1 THEN x ELSE l[k - 1]]

\* list[-n:]
Tail_n(l, n) == IF Len(l) <= n THEN l ELSE SubSeq(l, Len(l) - n + 1, Len(l))

\* range(n) as a list
Range(n) == [k \in 1..n |-> k - 1]

(***************************************************************************)
(* The seeded random stream.  random.Random is modelled as a linear        *)
(* congruential generator over 0..63: the stream is a function of the seed *)
(* alone and is advanced by one value per draw.                            *)
(***************************************************************************)
RngSeed(seed) == seed % 64
RngNext(r) == (13 * r + 7) % 64
\* Random._randbelow(n): the value drawn after advancing the stream
RandBelow(r, n) == RngNext(r) % n
\* Random.random() < percent / 100
RandomLess(r, percent) == RngNext(r) * 100 < percent * 64

\* random.shuffle: for i in reversed(range(1, len(x))): j = randbelow(i + 1); swap.
\* Returns the shuffled list and the stream after it.
RECURSIVE ShuffleFrom(_, _, _)
ShuffleFrom(r, items, i) ==
    IF i < 1 THEN [rng |-> r, items |-> items]
    ELSE LET j == RandBelow(r, i + 1)
             swapped == [items EXCEPT ![i + 1] = items[j + 1], ![j + 1] = items[i + 1]]
         IN  ShuffleFrom(RngNext(r), swapped, i - 1)

_shuffle(r, items) == ShuffleFrom(r, items, Len(items) - 1)

(***************************************************************************)
(* Engine helpers (match.py)                                               *)
(***************************************************************************)
Log(s, event) == [s EXCEPT !.event_log = Append(@, event)]

_draw_one(s, player) ==
    LET ps == s.players[player]
    IN  IF Len(ps.deck) = 0 THEN s
        ELSE LET card_id == ps.deck[Len(ps.deck)]
                 s1 == [s EXCEPT !.players[player].deck = SubSeq(ps.deck, 1, Len(ps.deck) - 1),
                                 !.players[player].hand = Append(ps.hand, card_id)]
             IN  Log(s1, [type |-> "CARD_DRAWN", player |-> player, card_id |-> card_id])

\* A Draw effect drawing a single card whatever its count.
DrawMany_once(s, player, count) ==
    IF count <= 0 THEN s ELSE _draw_one(s, player)

\* for _ in range(count): _draw_one(state, player)
RECURSIVE DrawMany(_, _, _)
DrawMany(s, player, count) ==
    IF count <= 0 THEN s ELSE DrawMany(_draw_one(s, player), player, count - 1)

\* The energy ramp without the cap at config.max_energy.
EnergyRamp_uncapped(cfg, energy_max) == energy_max + 1

\* The energy ramp of _start_turn.
EnergyRamp(cfg, energy_max) == Min(cfg.max_energy, energy_max + 1)

\* _start_turn drawing on the player's first turn too.
_start_turn_first_turn_draw(s, player) ==
    LET ps == s.players[player]
        energy_max == EnergyRamp(s.config, ps.energy_max)
        refreshed == [i \in DOMAIN ps.board |->
                        IF ps.board[i] = None THEN None
                        ELSE [ps.board[i] EXCEPT !.has_attacked = FALSE,
                                                 !.summoning_sick = FALSE]]
        s1 == [s EXCEPT !.players[player].energy_max = energy_max,
                        !.players[player].energy = energy_max,
                        !.players[player].board = refreshed]
        s2 == _draw_one(s1, player)
        s3 == [s2 EXCEPT !.players[player].turns_taken = @ + 1]
    IN  Log(s3, [type |-> "TURN_STARTED", player |-> player, energy |-> energy_max])

\* _start_turn leaving has_attacked as it is.
_start_turn_attacked_kept(s, player) ==
    LET ps == s.players[player]
        energy_max == EnergyRamp(s.config, ps.energy_max)
        refreshed == [i \in DOMAIN ps.board |->
                        IF ps.board[i] = None THEN None
                        ELSE [ps.board[i] EXCEPT !.summoning_sick = FALSE]]
        s1 == [s EXCEPT !.players[player].energy_max = energy_max,
                        !.players[player].energy = energy_max,
                        !.players[player].board = refreshed]
        s2 == IF ps.turns_taken > 0 THEN _draw_one(s1, player) ELSE s1
        s3 == [s2 EXCEPT !.players[player].turns_taken = @ + 1]
    IN  Log(s3, [type |-> "TURN_STARTED", player |-> player, energy |-> energy_max])

\* _start_turn recording the turn-started event before the draw.
_start_turn_event_before_draw(s, player) ==
    LET ps == s.players[player]
        energy_max == EnergyRamp(s.config, ps.energy_max)
        refreshed == [i \in DOMAIN ps.board |->
                        IF ps.board[i] = None THEN None
                        ELSE [ps.board[i] EXCEPT !.has_attacked = FALSE,
                                                 !.summoning_sick = FALSE]]
        s1 == [s EXCEPT !.players[player].energy_max = energy_max,
                        !.players[player].energy = energy_max,
                        !.players[player].board = refreshed]
        s2 == Log(s1, [type |-> "TURN_STARTED", player |-> player, energy |-> energy_max])
        s3 == IF ps.turns_taken > 0 THEN _draw_one(s2, player) ELSE s2
    IN  [s3 EXCEPT !.players[player].turns_taken = @ + 1]

\* _start_turn not counting player 1's first turn.
_start_turn_first_turn_uncounted(s, player) ==
    LET ps == s.players[player]
        energy_max == EnergyRamp(s.config, ps.energy_max)
        refreshed == [i \in DOMAIN ps.board |->
                        IF ps.board[i] = None THEN None
                        ELSE [ps.board[i] EXCEPT !.has_attacked = FALSE,
                                                 !.summoning_sick = FALSE]]
        s1 == [s EXCEPT !.players[player].energy_max = energy_max,
                        !.players[player].energy = energy_max,
                        !.players[player].board = refreshed]
        s2 == IF ps.turns_taken > 0 THEN _draw_one(s1, player) ELSE s1
        s3 == IF player = 1 /\ ps.turns_taken = 0 THEN s2
              ELSE [s2 EXCEPT !.players[player].turns_taken = @ + 1]
    IN  Log(s3, [type |-> "TURN_STARTED", player |-> player, energy |-> energy_max])

_start_turn(s, player) ==
    LET ps == s.players[player]
        energy_max == EnergyRamp(s.config, ps.energy_max)
        refreshed == [i \in DOMAIN ps.board |->
                        IF ps.board[i] = None THEN None
                        ELSE [ps.board[i] EXCEPT !.has_attacked = FALSE,
                                                 !.summoning_sick = FALSE]]
        s1 == [s EXCEPT !.players[player].energy_max = energy_max,
                        !.players[player].energy = energy_max,
                        !.players[player].board = refreshed]
        s2 == IF ps.turns_taken > 0 THEN _draw_one(s1, player) ELSE s1
        s3 == [s2 EXCEPT !.players[player].turns_taken = @ + 1]
    IN  Log(s3, [type |-> "TURN_STARTED", player |-> player, energy |-> energy_max])

\* _find_empty_slot returning the highest-index empty slot.
_find_empty_slot_highest(board) ==
    IF \E i \in DOMAIN board : board[i] = None
    THEN CHOOSE i \in DOMAIN board :
            /\ board[i] = None
            /\ \A j \in DOMAIN board : board[j] = None => i >= j
    ELSE NoSlot

\* The lowest-index empty slot, NoSlot when the board is full (Python: None).
_find_empty_slot(board) ==
    IF \E i \in DOMAIN board : board[i] = None
    THEN CHOOSE i \in DOMAIN board :
            /\ board[i] = None
            /\ \A j \in DOMAIN board : board[j] = None => i <= j
    ELSE NoSlot

\* _remove_dead visits players 0, 1 and each board in slot order; k counts the
\* visited (player, slot) pairs.
RECURSIVE RemoveDeadFrom(_, _)
RemoveDeadFrom(s, k) ==
    LET n == s.config.board_slots
        p_i == k \div n
        slot == k % n
    IN  IF n = 0 \/ k >= 2 * n THEN s
        ELSE LET c == s.players[p_i].board[slot]
             IN  IF c # None /\ c.health <= 0
                 THEN RemoveDeadFrom(
                        Log([s EXCEPT !.players[p_i].discard = Append(@, c.card_id),
                                      !.players[p_i].board[slot] = None],
                            [type |-> "CREATURE_DIED", player |-> p_i, slot |-> slot,
                             card_id |-> c.card_id]),
                        k + 1)
                 ELSE RemoveDeadFrom(s, k + 1)

\* The sweep leaving player 1's board alone.
_remove_dead_player0_only(s) == RemoveDeadFrom(s, s.config.board_slots)

_remove_dead(s) == RemoveDeadFrom(s, 0)

\* _heal_player without the cap at starting health.
_heal_player_cap_plus_one(s, player, amount) ==
    IF amount <= 0 THEN s
    ELSE LET before == s.players[player].health
             after == Min(s.config.starting_health + 1, before + amount)
             s1 == [s EXCEPT !.players[player].health = after]
         IN  IF after - before > 0
             THEN Log(s1, [type |-> "HEAL_PLAYER", player |-> player, amount |-> after - before])
             ELSE s1

_heal_player_uncapped(s, player, amount) ==
    IF amount <= 0 THEN s
    ELSE Log([s EXCEPT !.players[player].health = @ + amount],
             [type |-> "HEAL_PLAYER", player |-> player, amount |-> amount])

_heal_player(s, player, amount) ==
    IF amount <= 0 THEN s
    ELSE LET before == s.players[player].health
             after == Min(s.config.starting_health, before + amount)
             healed == after - before
             s1 == [s EXCEPT !.players[player].health = after]
         IN  IF healed > 0
             THEN Log(s1, [type |-> "HEAL_PLAYER", player |-> player, amount |-> healed])
             ELSE s1

\* The value _damage_player returns.
_damage_player_dealt(s, player, amount) ==
    IF amount <= 0 THEN 0 ELSE Min(s.players[player].health, amount)

\* _damage_player taking off only the damage it reports: health stops at zero.
_damage_player_clamped(s, player, amount) ==
    IF amount <= 0 THEN s
    ELSE Log([s EXCEPT !.players[player].health = @ - _damage_player_dealt(s, player, amount)],
             [type |-> "DAMAGE_PLAYER", player |-> player, amount |-> amount,
              dealt |-> _damage_player_dealt(s, player, amount)])

_damage_player(s, player, amount) ==
    IF amount <= 0 THEN s
    ELSE Log([s EXCEPT !.players[player].health = @ - amount],
             [type |-> "DAMAGE_PLAYER", player |-> player, amount |-> amount,
              dealt |-> _damage_player_dealt(s, player, amount)])

\* ps.board[slot] as Python indexes a list of board_slots entries: an index
\* from -board_slots to board_slots - 1 is in range, a negative one counting
\* from the end; any other index raises IndexError.
InBoard(s, slot) == slot >= 0 - s.config.board_slots /\ slot < s.config.board_slots
BoardIndex(s, slot) == IF slot < 0 THEN slot + s.config.board_slots ELSE slot

\* The value _damage_creature returns.
_damage_creature_dealt(s, player, slot, amount) ==
    LET c == s.players[player].board[BoardIndex(s, slot)]
    IN  IF c = None THEN 0 ELSE Min(c.health, amount)

_damage_creature(s, player, slot, amount) ==
    LET c == s.players[player].board[BoardIndex(s, slot)]
    IN  IF c = None THEN s
        ELSE Log([s EXCEPT !.players[player].board[BoardIndex(s, slot)].health = @ - amount],
                 [type |-> "DAMAGE_CREATURE", player |-> player, slot |-> slot,
                  amount |-> amount])

\* The tie-break awarding the double KO to the current player.
DoubleKoWinner_current(s) == s.current_player

\* The winner _check_winner names when both players are at health <= 0.
DoubleKoWinner(s) == opponent(s.current_player)

\* The win check that never names a winner.
_check_winner_never(s) == s

_check_winner(s) ==
    LET p0 == s.players[0].health
        p1 == s.players[1].health
    IN  IF s.winner # NoWinner THEN s
        ELSE IF p0 <= 0 /\ p1 <= 0
        THEN Log([s EXCEPT !.winner = DoubleKoWinner(s)],
                 [type |-> "GAME_ENDED", winner |-> DoubleKoWinner(s), reason |-> "double_ko"])
        ELSE IF p0 <= 0
        THEN Log([s EXCEPT !.winner = 1],
                 [type |-> "GAME_ENDED", winner |-> 1, reason |-> "health_0"])
        ELSE IF p1 <= 0
        THEN Log([s EXCEPT !.winner = 0],
                 [type |-> "GAME_ENDED", winner |-> 0, reason |-> "health_0"])
        ELSE s

\* CreatureInstance.has
Has(c, kw) == kw \in c.keywords

\* _has_guard finding no Guard.
_has_guard_never(ps) == FALSE

_has_guard(ps) == \E i \in DOMAIN ps.board : ps.board[i] # None /\ Has(ps.board[i], "Guard")

\* The list _valid_attack_targets builds: creature targets in slot order, then
\* the defending player unless a Guard is present.
_valid_attack_targets(s, attacker_player) ==
    LET defender == opponent(attacker_player)
        dps == s.players[defender]
        guard_only == _has_guard(dps)
        Keep(i) == /\ dps.board[i] # None
                   /\ ~(guard_only /\ ~Has(dps.board[i], "Guard"))
        slots == SelectSeq(Range(s.config.board_slots), Keep)
        creatures == [k \in 1..Len(slots) |-> creature_target(defender, slots[k])]
    IN  IF guard_only THEN creatures ELSE Append(creatures, player_target(defender))

get_valid_attack_targets(s, attacker_player) == _valid_attack_targets(s, attacker_player)

\* needs_target as get_valid_targets_for_play computes it
\* needs_target set by Damage effects only.
NeedsTarget_damage_only(card) ==
    \E k \in 1..Len(card.effects) : card.effects[k].type = "damage"

\* needs_target as the loop over card.effects computes it.
NeedsTarget(card) ==
    \E k \in 1..Len(card.effects) :
        LET eff == card.effects[k]
        IN  \/ eff.type = "damage" /\ eff.target \in {"enemy_creature", "enemy_player", "any"}
            \/ eff.type = "heal" /\ eff.target = "self_creature"
            \/ eff.type = "buff"

get_valid_targets_for_play(s, player, card_id) ==
    LET card == CardGet(card_id)
        enemy == opponent(player)
        Own(i) == s.players[player].board[i] # None
        Theirs(i) == s.players[enemy].board[i] # None
        own == SelectSeq(Range(s.config.board_slots), Own)
        theirs == SelectSeq(Range(s.config.board_slots), Theirs)
    IN  IF card.type = "creature" THEN <<>>
        ELSE IF ~NeedsTarget(card) THEN <<>>
        ELSE [k \in 1..Len(own) |-> creature_target(player, own[k])]
             \o [k \in 1..Len(theirs) |-> creature_target(enemy, theirs[k])]
             \o <<player_target(player), player_target(enemy)>>

\* x in list
InList(x, l) == \E k \in 1..Len(l) : l[k] = x

(***************************************************************************)
(* Effect resolution and the three action handlers.  Each returns the      *)
(* StepResult (ok, error) together with the match state after the call.    *)
(***************************************************************************)
NoError == ""

\* A returned StepResult: success, or a reported error.
Ok(s) == [state |-> s, ok |-> TRUE, error |-> NoError, raised |-> FALSE]
Fail(s, msg) == [state |-> s, ok |-> FALSE, error |-> msg, raised |-> FALSE]

\* An exception leaving the call: no StepResult is returned, and the state
\* keeps what was written before the raise.
Raise(s, exc) == [state |-> s, ok |-> FALSE, error |-> exc, raised |-> TRUE]

\* The creature check without the side: any creature target passes.
IsCreatureOf_any_side(target, player) ==
    target # None /\ target.kind = "creature"

IsCreatureOf(target, player) ==
    target # None /\ target.kind = "creature" /\ target.player = player

DamageResolve(s, player, eff, target) ==
    LET enemy == opponent(player)
    IN  CASE eff.target = "enemy_player" ->
                IF target # None /\ ~(target.kind = "player" /\ target.player = enemy)
                THEN Fail(s, "Target enemy player.")
                ELSE Ok(_damage_player(s, enemy, eff.amount))
          [] eff.target = "enemy_creature" ->
                IF ~IsCreatureOf(target, enemy)
                THEN Fail(s, "Target an enemy creature.")
                ELSE IF ~InBoard(s, target.slot) THEN Raise(s, "IndexError")
                ELSE Ok(_damage_creature(s, enemy, target.slot, eff.amount))
          [] eff.target = "any" ->
                IF target = None THEN Fail(s, "Select a target.")
                ELSE IF target.kind = "player"
                THEN Ok(_damage_player(s, target.player, eff.amount))
                ELSE IF ~InBoard(s, target.slot) THEN Raise(s, "IndexError")
                ELSE Ok(_damage_creature(s, target.player, target.slot, eff.amount))
          [] OTHER -> Ok(s)

HealResolve(s, player, eff, target) ==
    CASE eff.target = "self_player" -> Ok(_heal_player(s, player, eff.amount))
      [] eff.target = "self_creature" ->
            IF ~IsCreatureOf(target, player)
            THEN Fail(s, "Target one of your creatures.")
            ELSE IF ~InBoard(s, target.slot) THEN Raise(s, "IndexError")
            ELSE LET slot == BoardIndex(s, target.slot)
                     c == s.players[player].board[slot]
                     s1 == [s EXCEPT !.players[player].board[slot].health =
                                         @ + eff.amount]
                 IN  IF c = None THEN Ok(s)
                     ELSE IF eff.amount > 0
                     THEN Ok(Log(s1, [type |-> "HEAL_CREATURE", player |-> player,
                                      slot |-> target.slot, amount |-> eff.amount]))
                     ELSE Ok(s1)
      [] OTHER -> Ok(s)

BuffResolve(s, player, eff, target) ==
    IF eff.target = "self_creature" /\ ~IsCreatureOf(target, player)
    THEN Fail(s, "Target one of your creatures.")
    ELSE IF eff.target = "any_creature" /\ ~(target # None /\ target.kind = "creature")
    THEN Fail(s, "Target a creature.")
    ELSE IF ~InBoard(s, target.slot) THEN Raise(s, "IndexError")
    ELSE LET slot == BoardIndex(s, target.slot)
             c == s.players[target.player].board[slot]
         IN  IF c = None THEN Ok(s)
             ELSE Ok(Log([s EXCEPT !.players[target.player].board[slot].attack =
                                       @ + eff.attack_delta,
                                   !.players[target.player].board[slot].health =
                                       @ + eff.health_delta],
                         [type |-> "BUFF_APPLIED", player |-> target.player,
                          slot |-> target.slot, attack_delta |-> eff.attack_delta,
                          health_delta |-> eff.health_delta]))

\* CreatureInstance(...) followed by the Haste check that clears summoning_sick
\* A new creature instance never summoning-sick.
NewCreature_never_sick(card_id) ==
    LET def == CardGet(card_id)
    IN  [card_id |-> card_id,
         attack |-> def.creature_stats.attack,
         health |-> def.creature_stats.health,
         keywords |-> def.keywords,
         summoning_sick |-> FALSE,
         has_attacked |-> FALSE]

\* CreatureInstance(...) with the sickness flag left set for Haste.
NewCreature_always_sick(card_id) ==
    LET def == CardGet(card_id)
    IN  [card_id |-> card_id,
         attack |-> def.creature_stats.attack,
         health |-> def.creature_stats.health,
         keywords |-> def.keywords,
         summoning_sick |-> TRUE,
         has_attacked |-> FALSE]

\* CreatureInstance(...) as _play_card and the Summon effect build it, the
\* sickness flag cleared for Haste.
NewCreature(card_id) ==
    LET def == CardGet(card_id)
    IN  [card_id |-> card_id,
         attack |-> def.creature_stats.attack,
         health |-> def.creature_stats.health,
         keywords |-> def.keywords,
         summoning_sick |-> ~("Haste" \in def.keywords),
         has_attacked |-> FALSE]

RECURSIVE SummonResolve(_, _, _, _)
SummonResolve(s, player, eff, count) ==
    LET slot == _find_empty_slot(s.players[player].board)
    IN  IF count <= 0 \/ slot = NoSlot THEN s
        ELSE IF CardGet(eff.token_card_id).creature_stats = None
        THEN SummonResolve(s, player, eff, count - 1)
        ELSE SummonResolve(
                Log([s EXCEPT !.players[player].board[slot] = NewCreature(eff.token_card_id)],
                    [type |-> "CREATURE_SUMMONED", player |-> player, slot |-> slot,
                     card_id |-> eff.token_card_id]),
                player, eff, count - 1)

EffectResolve(s, player, eff, target) ==
    CASE eff.type = "damage" -> DamageResolve(s, player, eff, target)
      [] eff.type = "heal" -> HealResolve(s, player, eff, target)
      [] eff.type = "draw" -> Ok(DrawMany(s, player, Max(0, eff.count)))
      [] eff.type = "buff" -> BuffResolve(s, player, eff, target)
      [] eff.type = "summon" -> Ok(SummonResolve(s, player, eff, Max(0, eff.count)))
      [] OTHER -> Ok(s)

\* for eff in card.effects: ..., from the k-th effect on; a failed require
\* returns at once, and an exception leaves at once, with the earlier effects
\* applied.
RECURSIVE ResolveFrom(_, _, _, _, _)
ResolveFrom(s, player, card, target, k) ==
    IF k > Len(card.effects)
    THEN Ok(_check_winner(_remove_dead(s)))
    ELSE LET r == EffectResolve(s, player, card.effects[k], target)
         IN  IF r.ok THEN ResolveFrom(r.state, player, card, target, k + 1) ELSE r

_resolve_spell(s, player, card, target) == ResolveFrom(s, player, card, target, 1)

\* The ownership check skipped.
NotYourTurn_unchecked(s, action) == FALSE

\* The ownership check that opens _play_card, _attack and _end_turn.
NotYourTurn(s, action) == action.player # s.current_player

\* Rollback without the energy refund.
Rollback_without_refund(s, player, hand_index, card_id, cost) ==
    LET ps == s.players[player]
        s1 == [s EXCEPT !.players[player].hand = ListInsert(ps.hand, hand_index, card_id),
                        !.players[player].discard = SubSeq(ps.discard, 1, Len(ps.discard) - 1)]
    IN  IF Len(s1.event_log) > 0 /\ s1.event_log[Len(s1.event_log)].type = "CARD_PLAYED"
        THEN [s1 EXCEPT !.event_log = SubSeq(@, 1, Len(@) - 1)]
        ELSE s1

\* Rollback without the discard pop.
Rollback_keeping_discard(s, player, hand_index, card_id, cost) ==
    LET ps == s.players[player]
        s1 == [s EXCEPT !.players[player].energy = @ + cost,
                        !.players[player].hand = ListInsert(ps.hand, hand_index, card_id)]
    IN  IF Len(s1.event_log) > 0 /\ s1.event_log[Len(s1.event_log)].type = "CARD_PLAYED"
        THEN [s1 EXCEPT !.event_log = SubSeq(@, 1, Len(@) - 1)]
        ELSE s1

\* Rollback keeping the energy the play paid.
Rollback_no_refund(s, player, hand_index, card_id, cost) ==
    LET ps == s.players[player]
        s1 == [s EXCEPT !.players[player].hand = ListInsert(ps.hand, hand_index, card_id),
                        !.players[player].discard = SubSeq(ps.discard, 1, Len(ps.discard) - 1)]
    IN  IF Len(s1.event_log) > 0 /\ s1.event_log[Len(s1.event_log)].type = "CARD_PLAYED"
        THEN [s1 EXCEPT !.event_log = SubSeq(@, 1, Len(@) - 1)]
        ELSE s1

\* Rollback putting the card back at the end of the hand.
Rollback_card_to_end(s, player, hand_index, card_id, cost) ==
    LET ps == s.players[player]
        s1 == [s EXCEPT !.players[player].energy = @ + cost,
                        !.players[player].hand = Append(ps.hand, card_id),
                        !.players[player].discard = SubSeq(ps.discard, 1, Len(ps.discard) - 1)]
    IN  IF Len(s1.event_log) > 0 /\ s1.event_log[Len(s1.event_log)].type = "CARD_PLAYED"
        THEN [s1 EXCEPT !.event_log = SubSeq(@, 1, Len(@) - 1)]
        ELSE s1

\* Rollback taking two events off the log when the card-played event is last.
Rollback_popping_two(s, player, hand_index, card_id, cost) ==
    LET ps == s.players[player]
        s1 == [s EXCEPT !.players[player].energy = @ + cost,
                        !.players[player].hand = ListInsert(ps.hand, hand_index, card_id),
                        !.players[player].discard = SubSeq(ps.discard, 1, Len(ps.discard) - 1)]
    IN  IF Len(s1.event_log) > 0 /\ s1.event_log[Len(s1.event_log)].type = "CARD_PLAYED"
        THEN [s1 EXCEPT !.event_log = SubSeq(@, 1, Len(@) - 2)]
        ELSE s1

\* The undo of a spell play whose resolution failed.
Rollback(s, player, hand_index, card_id, cost) ==
    LET ps == s.players[player]
        s1 == [s EXCEPT !.players[player].energy = @ + cost,
                        !.players[player].hand = ListInsert(ps.hand, hand_index, card_id),
                        !.players[player].discard = SubSeq(ps.discard, 1, Len(ps.discard) - 1)]
    IN  IF Len(s1.event_log) > 0 /\ s1.event_log[Len(s1.event_log)].type = "CARD_PLAYED"
        THEN [s1 EXCEPT !.event_log = SubSeq(@, 1, Len(@) - 1)]
        ELSE s1

_play_card(s, action) ==
    LET ps == s.players[action.player]
        card_id == ps.hand[action.hand_index + 1]
        card == CardGet(card_id)
        slot == _find_empty_slot(ps.board)
        played == [type |-> "CARD_PLAYED", player |-> action.player, card_id |-> card_id]
        paid == [s EXCEPT !.players[action.player].energy = @ - card.cost,
                          !.players[action.player].hand = ListPop(ps.hand, action.hand_index)]
        summoned == Log(Log([paid EXCEPT !.players[action.player].board[slot] =
                                            NewCreature(card_id)],
                            played),
                        [type |-> "CREATURE_SUMMONED", player |-> action.player,
                         slot |-> slot, card_id |-> card_id])
        cast == Log([paid EXCEPT !.players[action.player].discard = Append(@, card_id)],
                    played)
        res == _resolve_spell(cast, action.player, card, action.target)
    IN  IF NotYourTurn(s, action) THEN Fail(s, "Not your turn.")
        ELSE IF action.hand_index < 0 \/ action.hand_index >= Len(ps.hand)
        THEN Fail(s, "Invalid hand index.")
        ELSE IF card.cost > ps.energy THEN Fail(s, "Not enough energy.")
        ELSE IF card.type = "creature"
        THEN IF slot = NoSlot THEN Fail(s, "Board is full.")
             ELSE IF card.creature_stats = None THEN Fail(s, "Invalid creature definition.")
             ELSE Ok(_check_winner(summoned))
        ELSE IF res.ok \/ res.raised THEN res
        ELSE Fail(Rollback(res.state, action.player, action.hand_index, card_id, card.cost),
                  res.error)

\* _attack with the defender struck first: a defender that dies deals no
\* damage back.
_attack_defender_first(s, action) ==
    LET ps == s.players[action.player]
        attacker == ps.board[action.attacker_slot]
        enemy == opponent(action.player)
        \* player target
        dealt_p == _damage_player_dealt(s, enemy, attacker.attack)
        p1 == _damage_player(s, enemy, attacker.attack)
        p2 == IF Has(attacker, "Lifesteal") /\ dealt_p > 0
              THEN _heal_player(p1, action.player, dealt_p) ELSE p1
        p3 == Log([p2 EXCEPT !.players[action.player].board[action.attacker_slot].has_attacked
                                = TRUE],
                  [type |-> "ATTACK_PLAYER", player |-> action.player,
                   attacker_slot |-> action.attacker_slot, amount |-> attacker.attack,
                   dealt |-> dealt_p])
        \* creature target
        def_slot == action.target.slot
        defender == s.players[enemy].board[def_slot]
        damage_to_def == attacker.attack
        damage_to_att == IF defender.health - attacker.attack <= 0 THEN 0
                         ELSE defender.attack
        dealt == _damage_creature_dealt(s, enemy, def_slot, damage_to_def)
        c1 == _damage_creature(s, enemy, def_slot, damage_to_def)
        c2 == _damage_creature(c1, action.player, action.attacker_slot, damage_to_att)
        c3 == IF Has(attacker, "Lifesteal") THEN _heal_player(c2, action.player, dealt) ELSE c2
        c4 == Log([c3 EXCEPT !.players[action.player].board[action.attacker_slot].has_attacked
                                = TRUE],
                  [type |-> "ATTACK_CREATURE", player |-> action.player,
                   attacker_slot |-> action.attacker_slot, defender_slot |-> def_slot])
    IN  IF NotYourTurn(s, action) THEN Fail(s, "Not your turn.")
        ELSE IF action.attacker_slot < 0 \/ action.attacker_slot >= s.config.board_slots
        THEN Fail(s, "Invalid attacker slot.")
        ELSE IF attacker = None THEN Fail(s, "No creature in that slot.")
        ELSE IF attacker.summoning_sick THEN Fail(s, "Summoning sickness.")
        ELSE IF attacker.has_attacked THEN Fail(s, "Already attacked.")
        ELSE IF ~InList(action.target, _valid_attack_targets(s, action.player))
        THEN Fail(s, "Invalid target (Guard rule?).")
        ELSE IF action.target.kind = "player" THEN Ok(_check_winner(p3))
        ELSE IF defender = None THEN Fail(s, "Target creature missing.")
        ELSE Ok(_check_winner(_remove_dead(c4)))

_attack(s, action) ==
    LET ps == s.players[action.player]
        attacker == ps.board[action.attacker_slot]
        enemy == opponent(action.player)
        \* player target
        dealt_p == _damage_player_dealt(s, enemy, attacker.attack)
        p1 == _damage_player(s, enemy, attacker.attack)
        p2 == IF Has(attacker, "Lifesteal") /\ dealt_p > 0
              THEN _heal_player(p1, action.player, dealt_p) ELSE p1
        p3 == Log([p2 EXCEPT !.players[action.player].board[action.attacker_slot].has_attacked
                                = TRUE],
                  [type |-> "ATTACK_PLAYER", player |-> action.player,
                   attacker_slot |-> action.attacker_slot, amount |-> attacker.attack,
                   dealt |-> dealt_p])
        \* creature target
        def_slot == action.target.slot
        defender == s.players[enemy].board[def_slot]
        damage_to_def == attacker.attack
        damage_to_att == defender.attack
        dealt == _damage_creature_dealt(s, enemy, def_slot, damage_to_def)
        c1 == _damage_creature(s, enemy, def_slot, damage_to_def)
        c2 == _damage_creature(c1, action.player, action.attacker_slot, damage_to_att)
        c3 == IF Has(attacker, "Lifesteal") THEN _heal_player(c2, action.player, dealt) ELSE c2
        c4 == Log([c3 EXCEPT !.players[action.player].board[action.attacker_slot].has_attacked
                                = TRUE],
                  [type |-> "ATTACK_CREATURE", player |-> action.player,
                   attacker_slot |-> action.attacker_slot, defender_slot |-> def_slot])
    IN  IF NotYourTurn(s, action) THEN Fail(s, "Not your turn.")
        ELSE IF action.attacker_slot < 0 \/ action.attacker_slot >= s.config.board_slots
        THEN Fail(s, "Invalid attacker slot.")
        ELSE IF attacker = None THEN Fail(s, "No creature in that slot.")
        ELSE IF attacker.summoning_sick THEN Fail(s, "Summoning sickness.")
        ELSE IF attacker.has_attacked THEN Fail(s, "Already attacked.")
        ELSE IF ~InList(action.target, _valid_attack_targets(s, action.player))
        THEN Fail(s, "Invalid target (Guard rule?).")
        ELSE IF action.target.kind = "player" THEN Ok(_check_winner(p3))
        ELSE IF defender = None THEN Fail(s, "Target creature missing.")
        ELSE Ok(_check_winner(_remove_dead(c4)))

\* _end_turn recording the turn-ended event before the ownership check.
_end_turn_event_first(s, action) ==
    LET s1 == Log(s, [type |-> "TURN_ENDED", player |-> action.player])
        s2 == [s1 EXCEPT !.current_player = opponent(s.current_player)]
    IN  IF NotYourTurn(s, action) THEN Fail(s1, "Not your turn.")
        ELSE Ok(_start_turn(s2, s2.current_player))

\* _end_turn starting the next turn without handing it to the other player.
_end_turn_same_player(s, action) ==
    IF NotYourTurn(s, action) THEN Fail(s, "Not your turn.")
    ELSE LET s1 == Log(s, [type |-> "TURN_ENDED", player |-> action.player])
         IN  Ok(_start_turn(s1, s1.current_player))

_end_turn(s, action) ==
    IF NotYourTurn(s, action) THEN Fail(s, "Not your turn.")
    ELSE LET s1 == Log(s, [type |-> "TURN_ENDED", player |-> action.player])
             s2 == [s1 EXCEPT !.current_player = opponent(s.current_player)]
         IN  Ok(_start_turn(s2, s2.current_player))

\* step without the ended check.
step_without_ended_check(s, action) ==
    LET logged == [s EXCEPT !.action_log = Append(@, action)]
    IN  CASE action.type = "play" -> _play_card(logged, action)
          [] action.type = "attack" -> _attack(logged, action)
          [] action.type = "end_turn" -> _end_turn(logged, action)
          [] OTHER -> Fail(logged, "Unknown action.")

\* step with the action logged before the ended check.
step_logging_ended(s, action) ==
    LET logged == [s EXCEPT !.action_log = Append(@, action)]
    IN  IF s.winner # NoWinner THEN Fail(logged, "Match already ended.")
        ELSE CASE action.type = "play" -> _play_card(logged, action)
               [] action.type = "attack" -> _attack(logged, action)
               [] action.type = "end_turn" -> _end_turn(logged, action)
               [] OTHER -> Fail(logged, "Unknown action.")

step(s, action) ==
    IF s.winner # NoWinner THEN Fail(s, "Match already ended.")
    ELSE LET logged == [s EXCEPT !.action_log = Append(@, action)]
         IN  CASE action.type = "play" -> _play_card(logged, action)
               [] action.type = "attack" -> _attack(logged, action)
               [] action.type = "end_turn" -> _end_turn(logged, action)
               [] OTHER -> Fail(logged, "Unknown action.")

(***************************************************************************)
(* The AI (ai.py).  It reads the match state and draws from state.rng; it  *)
(* changes the match only through step.                                    *)
(***************************************************************************)
\* _card_value, in tenths (the weights 1.5, 1.2, 0.9, 1.4, 1.8 are decimals).
EffectValue(eff) ==
    CASE eff.type = "damage" -> eff.amount * (IF eff.target # "enemy_player" THEN 20 ELSE 12)
      [] eff.type = "heal" -> eff.amount * 9
      [] eff.type = "draw" -> eff.count * 14
      [] eff.type = "buff" -> eff.attack_delta * 18 + eff.health_delta * 12
      [] eff.type = "summon" -> eff.count * 20
      [] OTHER -> 0

RECURSIVE SumEffectValues(_, _)
SumEffectValues(effects, k) ==
    IF k > Len(effects) THEN 0 ELSE EffectValue(effects[k]) + SumEffectValues(effects, k + 1)

_card_value(card) ==
    IF card.type = "creature"
    THEN 10 * (card.creature_stats.attack * 2 + card.creature_stats.health)
         + (IF "Guard" \in card.keywords THEN 15 ELSE 0)
         + (IF "Haste" \in card.keywords THEN 10 ELSE 0)
         + (IF "Lifesteal" \in card.keywords THEN 10 ELSE 0)
    ELSE SumEffectValues(card.effects, 1)

\* The element a "for t in l: if v(t) > best: best = v(t); best_t = t" loop
\* ends with, best starting at floor and v[k] being the value of l[k]: the
\* first element of the greatest value above floor, None when there is none.
FirstMax(l, v, floor) ==
    IF \A k \in 1..Len(l) : v[k] <= floor THEN None
    ELSE l[CHOOSE k \in 1..Len(l) :
                /\ v[k] > floor
                /\ \A j \in 1..Len(l) : v[j] <= v[k]
                /\ \A j \in 1..(k - 1) : v[j] < v[k]]

\* The same loop with "<": the first element of the least value.
FirstMin(l, v) ==
    IF Len(l) = 0 THEN None
    ELSE l[CHOOSE k \in 1..Len(l) :
                /\ \A j \in 1..Len(l) : v[j] >= v[k]
                /\ \A j \in 1..(k - 1) : v[j] > v[k]]

\* The attack, and the health, of each creature a list of targets names.
Attacks(s, l) == [k \in 1..Len(l) |-> s.players[l[k].player].board[l[k].slot].attack]
Healths(s, l) == [k \in 1..Len(l) |-> s.players[l[k].player].board[l[k].slot].health]

\* The creature a creature target names.
CreatureAt(s, t) == s.players[t.player].board[t.slot]

RECURSIVE ChooseFrom(_, _, _, _, _)
ChooseFrom(s, player, card, targets, k) ==
    LET enemy == opponent(player)
        eff == card.effects[k]
        IsEnemyCreature(t) ==
            t.kind = "creature" /\ t.player = enemy /\ CreatureAt(s, t) # None
        IsOwnCreature(t) ==
            t.kind = "creature" /\ t.player = player /\ CreatureAt(s, t) # None
        IsBuffable(t) ==
            /\ t.kind = "creature"
            /\ ~(eff.target = "self_creature" /\ t.player # player)
            /\ CreatureAt(s, t) # None
        theirs == SelectSeq(targets, IsEnemyCreature)
        own == SelectSeq(targets, IsOwnCreature)
        buffable == SelectSeq(targets, IsBuffable)
        strongest == FirstMax(theirs, Attacks(s, theirs), -1)
    IN  IF k > Len(card.effects)
        THEN (IF Len(targets) > 0 THEN targets[1] ELSE None)
        ELSE IF eff.type = "damage" /\ eff.target \in {"enemy_creature", "any"}
                /\ strongest # None
        THEN strongest
        ELSE IF eff.type = "damage" /\ eff.target \in {"enemy_player", "any"}
        THEN player_target(enemy)
        ELSE IF eff.type = "heal" /\ eff.target = "self_player" THEN None
        ELSE IF eff.type = "heal" /\ eff.target = "self_creature"
        THEN FirstMin(own, Healths(s, own))
        ELSE IF eff.type = "buff"
        THEN FirstMax(buffable, Attacks(s, buffable), -1)
        ELSE ChooseFrom(s, player, card, targets, k + 1)

_choose_spell_target(s, player, card, targets) == ChooseFrom(s, player, card, targets, 1)

\* The candidate _pick_best_play builds for hand index idx: None when the card
\* is skipped.
Candidate(s, player, idx) ==
    LET ps == s.players[player]
        card_id == ps.hand[idx + 1]
        card == CardGet(card_id)
        targets == get_valid_targets_for_play(s, player, card_id)
        chosen == _choose_spell_target(s, player, card, targets)
        With(target) ==
            [score |-> _card_value(card), action |-> PlayCardAction(player, idx, target)]
    IN  IF card.cost > ps.energy THEN None
        ELSE IF card.type = "creature"
        THEN (IF \A i \in DOMAIN ps.board : ps.board[i] # None THEN None ELSE With(None))
        ELSE IF Len(targets) = 0 THEN With(None)
        ELSE IF chosen = None THEN None
        ELSE With(chosen)

\* The difficulty's chance, in percent, of passing over the best play.
SkipPlayPercent(difficulty) ==
    IF difficulty <= 0 THEN 35 ELSE IF difficulty = 1 THEN 10 ELSE 0

\* Returns the chosen action (or None) and the random stream after the call.
_pick_best_play(s, player, difficulty) ==
    LET hand == s.players[player].hand
        IsCand(c) == c # None
        cands == SelectSeq([k \in 1..Len(hand) |-> Candidate(s, player, k - 1)], IsCand)
        best == FirstMin(cands, [k \in 1..Len(cands) |-> 0 - cands[k].score])
    IN  IF best = None THEN [action |-> None, rng |-> s.rng]
        ELSE IF difficulty <= 1
        THEN [action |-> IF RandomLess(s.rng, SkipPlayPercent(difficulty))
                         THEN None ELSE best.action,
              rng |-> RngNext(s.rng)]
        ELSE [action |-> best.action, rng |-> s.rng]

\* What _pick_attack settles on for the first creature able to attack.
AttackChoice(s, player, slot) ==
    LET enemy == opponent(player)
        c == s.players[player].board[slot]
        valid == get_valid_attack_targets(s, player)
        IsEnemyCreature(t) ==
            t.kind = "creature" /\ t.player = enemy /\ CreatureAt(s, t) # None
        IsTrade(t) ==
            /\ t.kind = "creature" /\ CreatureAt(s, t) # None
            /\ c.attack >= CreatureAt(s, t).health
            /\ c.health > CreatureAt(s, t).attack
        IsCreature(t) == t.kind = "creature"
        guard_targets == SelectSeq(valid, IsEnemyCreature)
        trades == SelectSeq(valid, IsTrade)
        creatures == SelectSeq(valid, IsCreature)
    IN  IF Len(guard_targets) > 0 THEN FirstMin(guard_targets, Healths(s, guard_targets))
        ELSE IF Len(trades) > 0
        THEN FirstMin(trades, [k \in 1..Len(trades) |-> 0 - Attacks(s, trades)[k]])
        ELSE IF InList(player_target(enemy), valid) THEN player_target(enemy)
        ELSE IF Len(creatures) > 0 THEN creatures[1]
        ELSE None

\* Returns the chosen action (or None) and the random stream after the call.
_pick_attack(s, player, difficulty) ==
    LET ps == s.players[player]
        Able(i) == /\ ps.board[i] # None
                   /\ ~ps.board[i].summoning_sick
                   /\ ~ps.board[i].has_attacked
                   /\ AttackChoice(s, player, i) # None
        able == SelectSeq(Range(s.config.board_slots), Able)
        slot == able[1]
    IN  IF Len(able) = 0 THEN [action |-> None, rng |-> s.rng]
        ELSE IF difficulty <= 0
        THEN [action |-> IF RandomLess(s.rng, 25) THEN None
                         ELSE AttackAction(player, slot, AttackChoice(s, player, slot)),
              rng |-> RngNext(s.rng)]
        ELSE [action |-> AttackAction(player, slot, AttackChoice(s, player, slot)),
              rng |-> s.rng]

\* The action one pass of ai_take_turn's loop submits, and the random stream
\* after choosing it: the play if there is one, else the attack if there is
\* one, else EndTurn.
AiChoiceOf_end_for_opponent(player, play, atk) ==
    IF play.action # None THEN play
    ELSE IF atk.action # None THEN atk
    ELSE [action |-> EndTurnAction(1 - player), rng |-> atk.rng]

AiChoiceOf(player, play, atk) ==
    IF play.action # None THEN play
    ELSE IF atk.action # None THEN atk
    ELSE [action |-> EndTurnAction(player), rng |-> atk.rng]

AiChoiceAfter(s, player, difficulty, play) ==
    AiChoiceOf(player, play, _pick_attack([s EXCEPT !.rng = play.rng], player, difficulty))

AiChoice(s, player, difficulty) ==
    AiChoiceAfter(s, player, difficulty, _pick_best_play(s, player, difficulty))

(***************************************************************************)
(* Match construction and replay                                           *)
(***************************************************************************)
NewPlayer(cfg, deck) ==
    [health |-> cfg.starting_health, energy_max |-> 0, energy |-> 0, deck |-> deck,
     hand |-> <<>>, board |-> [i \in 0..(cfg.board_slots - 1) |-> None],
     discard |-> <<>>, turns_taken |-> 0]

\* The starting hands dealt to player 1 first in each round.
RECURSIVE DealHands_player1_first(_, _)
DealHands_player1_first(s, rounds) ==
    IF rounds <= 0 THEN s
    ELSE DealHands_player1_first(_draw_one(_draw_one(s, 1), 0), rounds - 1)

\* for _ in range(cfg.starting_hand): _draw_one(state, 0); _draw_one(state, 1)
RECURSIVE DealHands(_, _)
DealHands(s, rounds) ==
    IF rounds <= 0 THEN s ELSE DealHands(_draw_one(_draw_one(s, 0), 1), rounds - 1)

\* The size check looking at deck0 only.
DecksFit_deck0_only(deck0, deck1, cfg) == Len(deck0) = cfg.deck_size

\* new_match raises ValueError unless both decks hold exactly deck_size cards.
DecksFit(deck0, deck1, cfg) == Len(deck0) = cfg.deck_size /\ Len(deck1) = cfg.deck_size

new_match(deck0, deck1, seed, cfg) ==
    LET d0 == _shuffle(RngSeed(seed), deck0)
        d1 == _shuffle(d0.rng, deck1)
        s0 == [config |-> cfg, seed |-> seed, rng |-> d1.rng,
               players |-> [p \in {0, 1} |->
                              NewPlayer(cfg, IF p = 0 THEN d0.items ELSE d1.items)],
               current_player |-> 0, winner |-> NoWinner,
               action_log |-> <<>>, event_log |-> <<>>]
        s1 == _start_turn(DealHands(s0, cfg.starting_hand), 0)
    IN  [s1 EXCEPT !.current_player = 0]

\* What a call of new_match leaves its caller with: the MatchState returned,
\* or the ValueError raised by the size check.
ValueError == [raised |-> "ValueError"]

NewMatchCall(deck0, deck1, seed, cfg) ==
    IF DecksFit(deck0, deck1, cfg) THEN new_match(deck0, deck1, seed, cfg) ELSE ValueError

\* for a in actions: step(state, a); if state.winner is not None: break
RECURSIVE ReplayFrom(_, _, _)
ReplayFrom(s, actions, k) ==
    IF k > Len(actions) THEN s
    ELSE LET s1 == step(s, actions[k]).state
         IN  IF s1.winner # NoWinner THEN s1 ELSE ReplayFrom(s1, actions, k + 1)

replay(deck0, deck1, seed, actions, cfg) ==
    ReplayFrom(new_match(deck0, deck1, seed, cfg), actions, 1)

\* serialize.snapshot: the seed, the turn owner, the winner, both players and the
\* action log (neither the event log nor the random stream).
snapshot(s) ==
    [seed |-> s.seed, current_player |-> s.current_player, winner |-> s.winner,
     players |-> s.players, action_log |-> s.action_log]

(***************************************************************************)
(* Inputs                                                                  *)
(***************************************************************************)
\* The longest sequence of step calls explored.
MaxSteps == 4

\* The most step calls of one match that may be rejected (ok = false).
MaxRejected == 2

\* MatchConfig values small enough to play a match out within MaxSteps.
SmallConfig ==
    [starting_health |-> 3, starting_hand |-> 3, deck_size |-> 4, board_slots |-> 2,
     max_energy |-> 2]

\* A MatchConfig dealing two cards of four, so that a deck holds two cards when
\* the first turn starts.
ShortHandConfig ==
    [starting_health |-> 3, starting_hand |-> 2, deck_size |-> 4, board_slots |-> 2,
     max_energy |-> 2]

\* The arguments of new_match: two deck lists, a seed and the configuration.
Setups ==
    { [deck0 |-> <<"flashbang", "extra", "vampire", "heckle">>,
       deck1 |-> <<"sniper", "driver", "pyro", "extra">>,
       seed |-> 1, config |-> SmallConfig],
      [deck0 |-> <<"extra", "crossfire", "pyro", "standoff">>,
       deck1 |-> <<"reshoot", "flashbang", "bigshot", "bodyguard">>,
       seed |-> 2, config |-> SmallConfig],
      [deck0 |-> <<"casting_call", "driver", "extra", "flashbang">>,
       deck1 |-> <<"montage", "vampire", "sniper", "heckle">>,
       seed |-> 3, config |-> SmallConfig],
      [deck0 |-> <<"rewrite", "retake", "extra", "montage">>,
       deck1 |-> <<"first_aid", "rewrite", "montage", "pep_talk">>,
       seed |-> 4, config |-> ShortHandConfig] }

Players == {0, 1}

\* The targets offered: both players, every occupied board slot, the
\* lowest-index empty slot of each board, and the first slot index past the
\* end of each board.
AllTargets(s) ==
    {player_target(p) : p \in Players}
    \cup {t \in {creature_target(p, i) : p \in Players, i \in 0..(s.config.board_slots - 1)} :
            \/ s.players[t.player].board[t.slot] # None
            \/ t.slot = _find_empty_slot(s.players[t.player].board)}
    \cup {creature_target(p, s.config.board_slots) : p \in Players}

\* Play actions: by the current player every hand index from -1 to the first
\* one past the hand, with every target (and none) for a spell that takes one; by the
\* other player the first hand index without a target and an index out of
\* range with one.
PlayInputs(s) ==
    LET p == s.current_player
        hand == s.players[p].hand
        TargetsFor(i) ==
            IF i >= 0 /\ i < Len(hand) /\ NeedsTarget(CardGet(hand[i + 1]))
            THEN AllTargets(s) \cup {None}
            ELSE {None}
    IN  {PlayCardAction(p, x[1], x[2]) : x \in
            {y \in ((0 - 1)..Len(hand)) \X (AllTargets(s) \cup {None}) : y[2] \in TargetsFor(y[1])}}
        \cup {PlayCardAction(opponent(p), 0, None),
              PlayCardAction(opponent(p), Len(s.players[opponent(p)].hand), player_target(p))}

\* Attack actions: by the current player from every slot and the first index out
\* of range, at every target when the slot holds a creature; by the other
\* player from the first slot at the player and from a slot out of range at a
\* creature slot.
AttackInputs(s) ==
    LET p == s.current_player
        board == s.players[p].board
        TargetsFor(i) ==
            IF i < s.config.board_slots /\ board[i] # None
            THEN AllTargets(s)
            ELSE {player_target(opponent(p))}
    IN  {AttackAction(p, x[1], x[2]) : x \in
            {y \in (0..s.config.board_slots) \X AllTargets(s) : y[2] \in TargetsFor(y[1])}}
        \cup {AttackAction(opponent(p), 0, player_target(p)),
              AttackAction(opponent(p), s.config.board_slots, creature_target(p, 0))}

EndTurnInputs == {EndTurnAction(p) : p \in Players}

\* AISpec.difficulty: easy, normal, hard.
Difficulties == {0, 1, 2}

(***************************************************************************)
(* The state machine                                                       *)
(***************************************************************************)
Init ==
    \E su \in Setups :
        /\ DecksFit(su.deck0, su.deck1, su.config)
        /\ setup = su
        /\ state = new_match(su.deck0, su.deck1, su.seed, su.config)
        /\ results = <<>>
        /\ submitted = <<>>
        /\ pre = state
        /\ ai = None

\* The number of step calls so far that returned ok = false.
Rejected == Cardinality({k \in 1..Len(results) : ~results[k].ok /\ ~results[k].raised})

\* A step call has raised an exception: the program has left the match.
Faulted == \E k \in 1..Len(results) : results[k].raised

\* Whether the bounds leave room for another step call.
CanCall == Len(submitted) < MaxSteps /\ ~Faulted

\* One call step(s, action), made by the caller or by ai_take_turn; pre keeps
\* the state the call was made on.
Recorded(s, action, by, r) ==
    /\ state' = r.state
    /\ pre' = s
    /\ results' = Append(results, [ok |-> r.ok, error |-> r.error, raised |-> r.raised,
                                   by |-> by])
    /\ submitted' = Append(submitted, action)
    /\ UNCHANGED setup

\* A call explored only while the bound on rejected calls leaves room for its
\* result.
Returned(s, action, by, r) ==
    /\ IF r.ok \/ r.raised THEN TRUE ELSE Rejected < MaxRejected
    /\ Recorded(s, action, by, r)

Call(s, action, by) == Returned(s, action, by, step(s, action))

Play == CanCall /\ ai = None /\ \E a \in PlayInputs(state) : Call(state, a, "caller") /\ UNCHANGED ai

Attack == CanCall /\ ai = None /\ \E a \in AttackInputs(state) : Call(state, a, "caller") /\ UNCHANGED ai

EndTurn == CanCall /\ ai = None /\ \E a \in EndTurnInputs : Call(state, a, "caller") /\ UNCHANGED ai

\* ai_take_turn's loop condition.
AiLoops(s, player) == s.winner = NoWinner /\ s.current_player = player

\* One pass of ai_take_turn's loop: choose, submit through step, and go round
\* again unless the pass ended the turn or the loop condition fails.
AiSubmit(player, difficulty, choice) ==
    /\ Call([state EXCEPT !.rng = choice.rng], choice.action, "ai")
    /\ ai' = IF choice.action.type # "end_turn" /\ AiLoops(state', player)
             THEN [player |-> player, difficulty |-> difficulty]
             ELSE None

AiPass(player, difficulty) == AiSubmit(player, difficulty, AiChoice(state, player, difficulty))

\* ai_take_turn(state, player, AISpec(difficulty)): returns at once when the
\* loop condition fails, otherwise makes the first pass.
AiTakeTurn ==
    /\ CanCall /\ ai = None
    /\ \E player \in Players, difficulty \in Difficulties :
        IF AiLoops(state, player) THEN AiPass(player, difficulty) ELSE UNCHANGED vars

\* The later passes of a running ai_take_turn.
AiContinue == CanCall /\ ai # None /\ AiPass(ai.player, ai.difficulty)

Next == Play \/ Attack \/ EndTurn \/ AiTakeTurn \/ AiContinue

Spec == Init /\ [][Next]_vars

(***************************************************************************)
(* One AI turn: after at most MaxLead calls by the caller, ai_take_turn is  *)
(* called once for the current player and its loop is followed for up to   *)
(* MaxAiCalls passes, however many of its step calls are rejected.  The ai  *)
(* record also keeps the size of the player's hand when the call began.     *)
(***************************************************************************)
\* The most step calls the caller makes before ai_take_turn is called.
MaxLead == 2

\* The most passes of the loop of one ai_take_turn call that are followed.
MaxAiCalls == 7

\* The step calls ai_take_turn has made.
AiCalls == Cardinality({k \in 1..Len(results) : results[k].by = "ai"})

CallUnbounded(s, action, by) == Recorded(s, action, by, step(s, action))

Lead ==
    /\ ai = None /\ AiCalls = 0 /\ ~Faulted
    /\ Len(submitted) < MaxLead
    /\ \E a \in PlayInputs(state) \cup AttackInputs(state) \cup EndTurnInputs :
          CallUnbounded(state, a, "caller")
    /\ UNCHANGED ai

\* One pass of the loop, as AiSubmit, whatever the result of its step call.
AiTurnSubmit(player, difficulty, hand, choice) ==
    /\ CallUnbounded([state EXCEPT !.rng = choice.rng], choice.action, "ai")
    /\ ai' = IF choice.action.type # "end_turn" /\ AiLoops(state', player)
             THEN [player |-> player, difficulty |-> difficulty, hand |-> hand]
             ELSE None

AiTurnPass(player, difficulty, hand) ==
    AiTurnSubmit(player, difficulty, hand, AiChoice(state, player, difficulty))

AiTurnStart ==
    /\ ai = None /\ AiCalls = 0 /\ ~Faulted
    /\ \E player \in Players, difficulty \in Difficulties :
          /\ AiLoops(state, player)
          /\ AiTurnPass(player, difficulty, Len(state.players[player].hand))

AiTurnContinue ==
    /\ ai # None /\ AiCalls < MaxAiCalls
    /\ AiTurnPass(ai.player, ai.difficulty, ai.hand)

NextAiTurn == Lead \/ AiTurnStart \/ AiTurnContinue

SpecAiTurn == Init /\ [][NextAiTurn]_vars

(***************************************************************************)
(* Construction alone: new_match called with deck lists of every length    *)
(* within DeckSlack of deck_size.  state is None until the call is made.   *)
(***************************************************************************)
\* How far the length of a supplied deck may differ from deck_size.
DeckSlack == 1

DeckCards == {"extra", "retake"}

DeckLists(cfg) ==
    UNION {[1..n -> DeckCards] : n \in (cfg.deck_size - DeckSlack)..(cfg.deck_size + DeckSlack)}

NewMatchArgs ==
    {[deck0 |-> d0, deck1 |-> d1, seed |-> 1, config |-> cfg] :
        d0 \in DeckLists(SmallConfig), d1 \in DeckLists(SmallConfig),
        cfg \in {SmallConfig, ShortHandConfig}}

InitNewMatch ==
    /\ setup \in NewMatchArgs
    /\ state = None
    /\ pre = None
    /\ results = <<>>
    /\ submitted = <<>>
    /\ ai = None

NewMatch ==
    /\ state = None
    /\ state' = NewMatchCall(setup.deck0, setup.deck1, setup.seed, setup.config)
    /\ UNCHANGED <<results, submitted, setup, pre, ai>>

NextNewMatch == NewMatch

SpecNewMatch == InitNewMatch /\ [][NextNewMatch]_vars

(***************************************************************************)
(* Properties                                                              *)
(***************************************************************************)
\* The match replay builds from the arguments of new_match and the actions
\* submitted so far.
Replayed == replay(setup.deck0, setup.deck1, setup.seed, submitted, setup.config)

\* The latest step call: its action and its result.
LastAction == submitted[Len(submitted)]
LastResult == results[Len(results)]
Called == Len(submitted) > 0

\* The latest step call returned a StepResult (it did not raise).
StepReturned == Called /\ ~LastResult.raised

\* C1: determinism.  After every prefix of the submitted actions every call of
\* which returned, whether the caller or ai_take_turn submitted them, the
\* snapshot of the live match equals
\* the snapshot of the match replay constructs independently from the same
\* decks, seed and actions.
C1_Determinism == ~Faulted => snapshot(state) = snapshot(Replayed)

\* A match of at least three calls, some by the caller and some by
\* ai_take_turn, in which the AI has drawn random numbers that replay has not.
C1_Witness ==
    /\ Len(submitted) >= 3
    /\ \E k \in 1..Len(results) : results[k].by = "ai"
    /\ \E k \in 1..Len(results) : results[k].by = "caller" /\ results[k].ok
    /\ state.rng # Replayed.rng
    /\ snapshot(state) = snapshot(Replayed)

\* The cards a player holds: deck, hand, discard and occupied board slots.
Held(s, p) ==
    LET ps == s.players[p]
    IN  Len(ps.deck) + Len(ps.hand) + Len(ps.discard)
        + Cardinality({i \in DOMAIN ps.board : ps.board[i] # None})

\* The card entries in the deck a player supplied to new_match.
Supplied(p) == Len(IF p = 0 THEN setup.deck0 ELSE setup.deck1)

\* The creatures Summon effects have put on a player's board: the
\* creature-summoned events not paired with the play of that creature card.
TokensSummoned(s, p) ==
    LET log == s.event_log
    IN  Cardinality({k \in 1..Len(log) :
            /\ log[k].type = "CREATURE_SUMMONED" /\ log[k].player = p
            /\ ~(k > 1 /\ log[k - 1].type = "CARD_PLAYED"
                       /\ log[k - 1].card_id = log[k].card_id)})

\* C2 as stated: no player ever holds more cards (deck, hand, discard, board)
\* than the deck supplied at construction has entries.
C2_CardCountOriginal == \A p \in Players : Held(state, p) <= Supplied(p)

\* C2, amended: a player holds exactly the supplied deck's entries plus the
\* tokens Summon effects created for that player; without Summon effects the
\* count never exceeds (and always equals) the supplied entries.
C2_CardCount == \A p \in Players : Held(state, p) = Supplied(p) + TokensSummoned(state, p)

\* A player has summoned tokens and one of them has died into the discard.
C2_Witness ==
    \E p \in Players :
        /\ TokensSummoned(state, p) > 0
        /\ \E k \in 1..Len(state.players[p].discard) :
              "Token" \in CardGet(state.players[p].discard[k]).keywords
        /\ Held(state, p) > Supplied(p)

\* The latest call was a Play of a spell the current player could pay for.
SpellPlayed ==
    /\ Called /\ LastAction.type = "play"
    /\ LastAction.player = pre.current_player
    /\ LastAction.hand_index \in 0..(Len(pre.players[LastAction.player].hand) - 1)
    /\ CardGet(pre.players[LastAction.player].hand[LastAction.hand_index + 1]).type = "spell"
    /\ CardGet(pre.players[LastAction.player].hand[LastAction.hand_index + 1]).cost
          <= pre.players[LastAction.player].energy

PlayedCard == CardGet(pre.players[LastAction.player].hand[LastAction.hand_index + 1])

\* A supplied target of the wrong kind or side for an effect's declared target.
WrongKindOrSide(eff, target, player) ==
    CASE eff.type = "damage" /\ eff.target = "enemy_creature" ->
            ~(target.kind = "creature" /\ target.player = opponent(player))
      [] eff.type = "damage" /\ eff.target = "enemy_player" ->
            ~(target.kind = "player" /\ target.player = opponent(player))
      [] eff.type = "heal" /\ eff.target = "self_creature" ->
            ~(target.kind = "creature" /\ target.player = player)
      [] eff.type = "buff" /\ eff.target = "self_creature" ->
            ~(target.kind = "creature" /\ target.player = player)
      [] eff.type = "buff" /\ eff.target = "any_creature" -> target.kind # "creature"
      [] OTHER -> FALSE

\* The three fields of the acting player C3 speaks of kept their values.
HandDiscardEnergyKept ==
    LET was == pre.players[LastAction.player]
        is == state.players[LastAction.player]
    IN  was.hand = is.hand /\ was.discard = is.discard /\ was.energy = is.energy

\* C3 as stated: a Play of a spell for which a target is needed, by the current
\* player with enough energy, with a missing target or one of the wrong kind or
\* side for an effect of the spell, returns ok = false and leaves the player's
\* hand, discard and energy as they were.
C3_RollbackOriginal ==
    (/\ SpellPlayed /\ StepReturned /\ NeedsTarget(PlayedCard)
     /\ \/ LastAction.target = None
        \/ \E k \in 1..Len(PlayedCard.effects) :
              WrongKindOrSide(PlayedCard.effects[k], LastAction.target, LastAction.player))
    => ~LastResult.ok /\ HandDiscardEnergyKept

\* An effect that refuses the target: a supplied one of the wrong kind or side,
\* or a missing one, which every targeted effect but Damage{enemy_player} refuses.
Refuses(eff, target, player) ==
    IF target = None
    THEN \/ eff.type = "damage" /\ eff.target \in {"enemy_creature", "any"}
         \/ eff.type = "heal" /\ eff.target = "self_creature"
         \/ eff.type = "buff"
    ELSE WrongKindOrSide(eff, target, player)

\* C3, amended: such a Play whose target an effect of the spell refuses returns
\* ok = false and restores discard and energy; the hand is restored too, except
\* that cards drawn by a Draw effect listed before the refusing effect stay at
\* its end.  A missing target is not refused by Damage{enemy_player}.
C3_Rollback ==
    (/\ SpellPlayed /\ StepReturned
     /\ \E k \in 1..Len(PlayedCard.effects) :
           Refuses(PlayedCard.effects[k], LastAction.target, LastAction.player))
    => LET was == pre.players[LastAction.player]
           is == state.players[LastAction.player]
           first == CHOOSE k \in 1..Len(PlayedCard.effects) :
                      /\ Refuses(PlayedCard.effects[k], LastAction.target, LastAction.player)
                      /\ \A j \in 1..(k - 1) :
                            ~Refuses(PlayedCard.effects[j], LastAction.target, LastAction.player)
       IN  /\ ~LastResult.ok
           /\ was.discard = is.discard /\ was.energy = is.energy
           /\ Len(is.hand) >= Len(was.hand)
           /\ SubSeq(is.hand, 1, Len(was.hand)) = was.hand
           /\ (\A j \in 1..(first - 1) : PlayedCard.effects[j].type # "draw")
                  => was.hand = is.hand

\* A spell play on a running match rolled back after an effect refused a
\* supplied target of the wrong side.
C3_Witness ==
    /\ SpellPlayed /\ pre.winner = NoWinner
    /\ LastAction.target # None
    /\ \E k \in 1..Len(PlayedCard.effects) :
           WrongKindOrSide(PlayedCard.effects[k], LastAction.target, LastAction.player)
    /\ ~LastResult.ok /\ HandDiscardEnergyKept

\* The match state but for the action log is as the latest call found it.
OnlyLogged == [state EXCEPT !.action_log = pre.action_log] = pre

\* C4 as stated: a step call that returns ok = false leaves the match state,
\* other than the action log, as it was: both players, the current player, the
\* winner and the event log.
C4_FailureKeepsStateOriginal == (StepReturned /\ ~LastResult.ok) => OnlyLogged

\* The latest call was a spell play whose first effect accepted the target, so
\* that a refusal, if any, came after an effect had been applied.
LaterEffectRefused ==
    /\ SpellPlayed /\ pre.winner = NoWinner
    /\ Len(PlayedCard.effects) > 1
    /\ ~Refuses(PlayedCard.effects[1], LastAction.target, LastAction.player)

\* C4, amended: a step call that returns ok = false leaves the winner and the
\* current player as they were, and leaves the whole match state other than the
\* action log as it was unless it is a spell play refused by a later effect of
\* the spell, whose earlier effects stay applied.
C4_FailureKeepsState ==
    (StepReturned /\ ~LastResult.ok)
    => /\ state.winner = pre.winner
       /\ state.current_player = pre.current_player
       /\ LaterEffectRefused \/ OnlyLogged

\* A spell play on a running match refused by its first effect and rolled back:
\* the action is logged and nothing else has changed.
C4_Witness ==
    /\ StepReturned /\ ~LastResult.ok /\ SpellPlayed /\ pre.winner = NoWinner
    /\ Refuses(PlayedCard.effects[1], LastAction.target, LastAction.player)
    /\ state.action_log = Append(pre.action_log, LastAction)
    /\ OnlyLogged

\* C5: after n step calls, whatever their outcome and whether or not the match
\* had ended, the action log is exactly the n submitted actions in order.
C5_LogComplete == state.action_log = submitted

\* C6: once the winner is set, every later step call, whatever the action and
\* the player, returns ok = false with the match-ended error and changes
\* neither the winner nor the players, the current player or the event log.
C6_EndedIsTerminal ==
    (Called /\ pre.winner # NoWinner)
    => /\ ~LastResult.ok /\ LastResult.error = "Match already ended."
       /\ state.winner = pre.winner
       /\ state.players = pre.players
       /\ state.current_player = pre.current_player
       /\ state.event_log = pre.event_log

\* An EndTurn by the current player submitted to an ended match.
C6_Witness ==
    /\ Called /\ pre.winner # NoWinner
    /\ LastAction.type = "end_turn" /\ LastAction.player = pre.current_player
    /\ state.winner = pre.winner

BothDown(s) == s.players[0].health <= 0 /\ s.players[1].health <= 0

\* The latest call found a running match with a player standing and left both
\* players at health <= 0.
BroughtBothDown == Called /\ pre.winner = NoWinner /\ ~BothDown(pre) /\ BothDown(state)

\* The match ended as a double KO won by the player who was not the current
\* player when the latest action was submitted.
DoubleKoRecorded ==
    /\ state.winner = opponent(pre.current_player)
    /\ Len(state.event_log) > 0
    /\ state.event_log[Len(state.event_log)] =
          [type |-> "GAME_ENDED", winner |-> opponent(pre.current_player),
           reason |-> "double_ko"]

Elems(l) == {l[k] : k \in 1..Len(l)}

\* The targets naming a player's creatures, all of them or those with Guard.
CreatureTargets(s, p) ==
    {creature_target(p, i) : i \in {j \in DOMAIN s.players[p].board : s.players[p].board[j] # None}}
GuardTargets(s, p) ==
    {t \in CreatureTargets(s, p) : "Guard" \in s.players[t.player].board[t.slot].keywords}

\* The latest call was an Attack on a running match by the current player with
\* a creature that was neither summoning-sick nor spent.
EligibleAttack ==
    /\ Called /\ LastAction.type = "attack" /\ pre.winner = NoWinner
    /\ LastAction.player = pre.current_player
    /\ LastAction.attacker_slot \in DOMAIN pre.players[LastAction.player].board
    /\ pre.players[LastAction.player].board[LastAction.attacker_slot] # None
    /\ ~pre.players[LastAction.player].board[LastAction.attacker_slot].summoning_sick
    /\ ~pre.players[LastAction.player].board[LastAction.attacker_slot].has_attacked

\* C8: Guard enforcement.  When the defender controls a Guard creature the valid
\* attack targets are exactly the defender's Guard creatures, otherwise every
\* occupied defending slot and the defending player; an eligible attacker's
\* Attack against a defender with a Guard is refused when aimed at the defending
\* player or a creature without Guard and succeeds when aimed at a Guard.
C8_Guard ==
    /\ \A p \in Players :
          Elems(get_valid_attack_targets(state, p)) =
             IF GuardTargets(state, opponent(p)) # {}
             THEN GuardTargets(state, opponent(p))
             ELSE CreatureTargets(state, opponent(p)) \cup {player_target(opponent(p))}
    /\ (EligibleAttack /\ GuardTargets(pre, opponent(LastAction.player)) # {})
       => LET enemy == opponent(LastAction.player)
          IN  /\ LastAction.target \in GuardTargets(pre, enemy) => LastResult.ok
              /\ LastAction.target \in
                    ({player_target(enemy)} \cup CreatureTargets(pre, enemy))
                       \ GuardTargets(pre, enemy)
                 => ~LastResult.ok

\* An eligible attacker struck a Guard while the defender also had a creature
\* without Guard.
C8_Witness ==
    /\ EligibleAttack /\ LastResult.ok
    /\ LastAction.target \in GuardTargets(pre, opponent(LastAction.player))
    /\ CreatureTargets(pre, opponent(LastAction.player))
          # GuardTargets(pre, opponent(LastAction.player))

\* The creature in a player's slot entered play in the current turn: the slot's
\* latest creature-summoned event follows the latest turn-started event.
EnteredThisTurn(s, p, slot) ==
    LET log == s.event_log
        Entered(k) == log[k].type = "CREATURE_SUMMONED" /\ log[k].player = p
                      /\ log[k].slot = slot
    IN  \E k \in 1..Len(log) :
            /\ Entered(k)
            /\ \A j \in (k + 1)..Len(log) : log[j].type # "TURN_STARTED"

\* The latest call was an Attack on a running match by the current player from
\* a slot holding a creature.
AttackWithCreature ==
    /\ Called /\ LastAction.type = "attack" /\ pre.winner = NoWinner
    /\ LastAction.player = pre.current_player
    /\ LastAction.attacker_slot \in DOMAIN pre.players[LastAction.player].board
    /\ pre.players[LastAction.player].board[LastAction.attacker_slot] # None

Attacker == pre.players[LastAction.player].board[LastAction.attacker_slot]

\* C9: summoning sickness.  An Attack with a creature without Haste in the turn
\* it entered play returns ok = false with the summoning-sickness error; an
\* Attack at a valid target with a creature that entered in an earlier turn, or
\* that has Haste, and has not attacked this turn returns ok = true.
C9_SummoningSickness ==
    AttackWithCreature
    => /\ (EnteredThisTurn(pre, LastAction.player, LastAction.attacker_slot)
           /\ "Haste" \notin Attacker.keywords)
          => ~LastResult.ok /\ LastResult.error = "Summoning sickness."
       /\ (/\ \/ ~EnteredThisTurn(pre, LastAction.player, LastAction.attacker_slot)
              \/ "Haste" \in Attacker.keywords
           /\ ~Attacker.has_attacked
           /\ LastAction.target \in Elems(get_valid_attack_targets(pre, LastAction.player)))
          => LastResult.ok

\* A creature without Haste, played in an earlier turn, attacked successfully.
C9_Witness ==
    /\ AttackWithCreature /\ LastResult.ok
    /\ "Haste" \notin Attacker.keywords
    /\ ~EnteredThisTurn(pre, LastAction.player, LastAction.attacker_slot)
    /\ \E k \in 1..Len(pre.event_log) :
          /\ pre.event_log[k].type = "CARD_PLAYED"
          /\ pre.event_log[k].card_id = Attacker.card_id

\* The latest call was a successful Attack.
Attacked ==
    /\ Called /\ LastAction.type = "attack" /\ LastResult.ok

\* The attacker's attack limited to the remaining health of the target of the
\* latest Attack.
LimitedDamage ==
    LET enemy == pre.players[opponent(LastAction.player)]
    IN  Min(Attacker.attack,
            IF LastAction.target.kind = "player" THEN enemy.health
            ELSE enemy.board[LastAction.target.slot].health)

\* The health of the attacker's controller before and after the latest Attack.
ControllerBefore == pre.players[LastAction.player].health
ControllerAfter == state.players[LastAction.player].health

\* C10 as stated: a successful attack by a Lifesteal creature sets its
\* controller's health to min(starting health, health before + d), d being the
\* attacker's attack limited to the target's remaining health; an attack by a
\* creature without Lifesteal leaves its controller's health as it was.
C10_LifestealOriginal ==
    Attacked
    => IF "Lifesteal" \in Attacker.keywords
       THEN ControllerAfter = Min(pre.config.starting_health, ControllerBefore + LimitedDamage)
       ELSE ControllerAfter = ControllerBefore

\* C10, amended: the same with d counted as zero when it is negative (an
\* attacker whose attack a Buff has brought below zero, or a target whose
\* health is below zero, heals nothing and costs its controller nothing).
C10_Lifesteal ==
    Attacked
    => IF "Lifesteal" \in Attacker.keywords
       THEN ControllerAfter =
               Min(pre.config.starting_health, ControllerBefore + Max(LimitedDamage, 0))
       ELSE ControllerAfter = ControllerBefore

\* A Lifesteal attack healed its controller, the cap at starting health cutting
\* the heal below the damage dealt.
C10_Witness ==
    /\ Attacked /\ "Lifesteal" \in Attacker.keywords
    /\ ControllerAfter > ControllerBefore
    /\ ControllerBefore + LimitedDamage > pre.config.starting_health

(***************************************************************************)
(* Turn structure                                                          *)
(***************************************************************************)
\* The number of turns of player p that have started: the first turn of
\* player 0 started by new_match, the others by the successful EndTurn calls of
\* the other player.
TurnsStarted(p) ==
    (IF p = 0 THEN 1 ELSE 0)
    + Cardinality({k \in 1..Len(submitted) :
                      /\ results[k].ok
                      /\ submitted[k].type = "end_turn"
                      /\ submitted[k].player = opponent(p)})

\* The latest call started a turn: a successful EndTurn.
TurnStarted == Called /\ LastResult.ok /\ LastAction.type = "end_turn"

\* C11: energy ramp.  In a fresh match player 0 has energy_max = energy = 1;
\* when a player's k-th turn starts, that player's energy_max is
\* min(max_energy, k) and the energy equals energy_max (so player 0's second
\* turn has energy_max 2).
C11_EnergyRamp ==
    /\ ~Called => /\ state.players[0].energy_max = 1
                  /\ state.players[0].energy = 1
    /\ TurnStarted =>
          LET p == state.current_player
              ps == state.players[p]
          IN  /\ p = opponent(LastAction.player)
              /\ ps.energy_max = Min(state.config.max_energy, TurnsStarted(p))
              /\ ps.energy = ps.energy_max

\* A third turn of a player starts with max_energy 2: the ramp is capped.
C11_Witness ==
    /\ TurnStarted
    /\ TurnsStarted(state.current_player) > state.config.max_energy

(***************************************************************************)
(* Draw spells                                                             *)
(***************************************************************************)
\* The latest call was a successful Play of a spell whose only effect is a Draw.
DrawSpellPlayed ==
    /\ SpellPlayed /\ LastResult.ok
    /\ Len(PlayedCard.effects) = 1
    /\ PlayedCard.effects[1].type = "draw"

\* The number of cards the played Draw spell moves: its count, capped by the
\* size of the deck before the play.
Drawn == Min(PlayedCard.effects[1].count, Len(pre.players[LastAction.player].deck))

\* The last n entries of list l, last entry first: the order in which n pops
\* from the end of l yield them.
RECURSIVE PoppedFrom(_, _)
PoppedFrom(l, n) ==
    IF n <= 0 \/ Len(l) = 0 THEN <<>>
    ELSE <<l[Len(l)]>> \o PoppedFrom(SubSeq(l, 1, Len(l) - 1), n - 1)

\* C12: a successful Play of a spell whose only effect is Draw{count} moves
\* min(count, deck size before) cards from the end of the player's deck to the
\* end of the hand, one at a time; the hand size changes by exactly
\* min(count, deck size) - 1; draws from an empty deck do nothing, and neither
\* player's health changes.
C12_DrawSpell ==
    DrawSpellPlayed =>
        LET p == LastAction.player
            before == pre.players[p]
            after == state.players[p]
        IN  /\ after.deck = SubSeq(before.deck, 1, Len(before.deck) - Drawn)
            /\ after.hand = ListPop(before.hand, LastAction.hand_index)
                            \o PoppedFrom(before.deck, Drawn)
            /\ Len(after.hand) = Len(before.hand) + Drawn - 1
            /\ \A q \in Players : state.players[q].health = pre.players[q].health

\* A Draw spell was played on a deck holding fewer cards than its count and
\* at least one card.
C12_Witness ==
    /\ DrawSpellPlayed
    /\ Len(pre.players[LastAction.player].deck) > 0
    /\ Len(pre.players[LastAction.player].deck) < PlayedCard.effects[1].count

\* The latest call was made on a match in progress by the player whose turn it
\* was not.
OffTurn ==
    /\ Called
    /\ pre.winner = NoWinner
    /\ LastAction.player # pre.current_player

\* C13: turn ownership.  In a match in progress every Play, Attack or EndTurn
\* whose player is not the current player returns ok = false with the error
\* "Not your turn.", whatever its other fields are.
C13_TurnOwnership ==
    OffTurn => /\ ~LastResult.ok
               /\ LastResult.error = "Not your turn."

\* An off-turn Attack from a slot holding a creature free of summoning
\* sickness has been rejected, after an off-turn Play of the first card in hand.
C13_Witness ==
    /\ OffTurn
    /\ LastAction.type = "attack"
    /\ LastAction.attacker_slot = 0
    /\ pre.players[LastAction.player].board[0] # None
    /\ ~pre.players[LastAction.player].board[0].summoning_sick
    /\ \E k \in 1..(Len(submitted) - 1) :
          /\ submitted[k].type = "play"
          /\ ~results[k].ok /\ results[k].error = "Not your turn."
          /\ submitted[k].hand_index = 0

(***************************************************************************)
(* Totality of step                                                        *)
(***************************************************************************)
\* C14: totality of step.  For every reachable state and every action (either
\* player, any hand index or attacker slot, any target including one naming an
\* empty or out-of-range board slot, or none) step returns a StepResult, with
\* ok = true or with ok = false and an error message; no call raises instead
\* of returning.
C14_StepTotal ==
    Called => /\ ~LastResult.raised
              /\ LastResult.ok \/ LastResult.error # NoError

(***************************************************************************)
(* Match construction                                                      *)
(***************************************************************************)
\* The match is as new_match returned it: no step call has been made.
Fresh == ~Called

\* The cards of list l as a bag.
BagOf(l) == [c \in Elems(l) |-> Cardinality({k \in 1..Len(l) : l[k] = c})]

\* C15: the initial state of new_match.  Both players have health
\* starting_health, a hand of exactly starting_hand cards and a deck of
\* deck_size - starting_hand cards, which together are the supplied deck; the
\* hands were dealt by alternating single draws, player 0 first; player 0 has
\* energy_max = energy = 1 and turns_taken = 1 and drew no card for the first
\* turn; player 1 has energy_max = energy = 0 and turns_taken = 0; the current
\* player is 0, there is no winner and the action log is empty.
C15_InitialState ==
    Fresh =>
        LET cfg == setup.config
            supplied == [p \in Players |-> IF p = 0 THEN setup.deck0 ELSE setup.deck1]
        IN  /\ \A p \in Players :
                  LET ps == state.players[p]
                  IN  /\ ps.health = cfg.starting_health
                      /\ Len(ps.hand) = cfg.starting_hand
                      /\ Len(ps.deck) = cfg.deck_size - cfg.starting_hand
                      /\ BagOf(ps.deck \o ps.hand) = BagOf(supplied[p])
                      /\ ps.discard = <<>>
                      /\ \A i \in DOMAIN ps.board : ps.board[i] = None
                      \* the j-th card of the hand is the j-th draw of player p
                      /\ \A j \in 1..cfg.starting_hand :
                            state.event_log[2 * (j - 1) + p + 1] =
                                [type |-> "CARD_DRAWN", player |-> p, card_id |-> ps.hand[j]]
            /\ Len(state.event_log) = 2 * cfg.starting_hand + 1
            /\ state.event_log[Len(state.event_log)].type = "TURN_STARTED"
            /\ state.players[0].energy_max = 1 /\ state.players[0].energy = 1
            /\ state.players[0].turns_taken = 1
            /\ state.players[1].energy_max = 0 /\ state.players[1].energy = 0
            /\ state.players[1].turns_taken = 0
            /\ state.current_player = 0
            /\ state.winner = NoWinner
            /\ state.action_log = <<>>

\* A fresh match whose hands hold two cards each and whose decks keep two.
C15_Witness ==
    /\ Fresh
    /\ Len(state.players[1].hand) = 2
    /\ Len(state.players[0].deck) = 2

\* new_match has been called (construction alone).
NewMatchCalled == state # None

\* C16: new_match called with a deck0 or deck1 whose length differs from
\* deck_size fails with the size error and produces no match state; decks of
\* the right length are dealt whole, neither truncated nor padded.
C16_DeckSize ==
    NewMatchCalled =>
        IF Len(setup.deck0) = setup.config.deck_size /\ Len(setup.deck1) = setup.config.deck_size
        THEN /\ state # ValueError
             /\ BagOf(state.players[0].deck \o state.players[0].hand) = BagOf(setup.deck0)
             /\ BagOf(state.players[1].deck \o state.players[1].hand) = BagOf(setup.deck1)
        ELSE state = ValueError

\* new_match was called with a deck0 of the right length and a deck1 one card
\* too long, and raised.
C16_Witness ==
    /\ NewMatchCalled
    /\ Len(setup.deck0) = setup.config.deck_size
    /\ Len(setup.deck1) = setup.config.deck_size + 1
    /\ state = ValueError

(***************************************************************************)
(* Target queries                                                          *)
(***************************************************************************)
\* An effect that acts on a chosen target: every Damage and Buff effect, and a
\* Heal of a creature.
Targeted(eff) ==
    \/ eff.type \in {"damage", "buff"}
    \/ eff.type = "heal" /\ eff.target # "self_player"

\* The occupied board slots of player p as creature targets.
OccupiedSlots(s, p) ==
    {creature_target(p, i) : i \in {j \in DOMAIN s.players[p].board : s.players[p].board[j] # None}}

\* The cards the query is asked about: a creature, a spell of each untargeted
\* effect kind, and a spell of each targeted effect kind and declared target.
QueriedCards ==
    {"extra", "montage", "rewrite", "casting_call", "sniper", "pyro", "flashbang",
     "first_aid", "pep_talk", "heckle"}

\* C17: get_valid_targets_for_play returns no target for a creature card and for
\* a spell with no targeted effect, and otherwise exactly every occupied
\* friendly creature slot, every occupied enemy creature slot and both players,
\* each once, whatever the kind of the spell's effects; the queries read the
\* match state and write nothing.
C17_ValidTargets ==
    \A p \in Players, card_id \in QueriedCards :
        LET card == CardGet(card_id)
            targets == get_valid_targets_for_play(state, p, card_id)
        IN  IF card.type = "creature"
               \/ \A k \in 1..Len(card.effects) : ~Targeted(card.effects[k])
            THEN targets = <<>>
            ELSE /\ Elems(targets) = OccupiedSlots(state, p)
                                     \cup OccupiedSlots(state, opponent(p))
                                     \cup {player_target(0), player_target(1)}
                 /\ Cardinality(Elems(targets)) = Len(targets)

\* Both boards hold a creature and one of them has an empty slot: a spell
\* healing an own creature is offered the enemy's creature and both players too.
C17_Witness ==
    /\ \A p \in Players : OccupiedSlots(state, p) # {}
    /\ \E p \in Players : Cardinality(OccupiedSlots(state, p)) < state.config.board_slots
    /\ Len(get_valid_targets_for_play(state, state.current_player, "first_aid")) >= 4

(***************************************************************************)
(* Win detection and the dead-creature sweep                               *)
(***************************************************************************)
\* Player p is at health <= 0 in match state s.
Down(s, p) == s.players[p].health <= 0

\* The winner of s agrees with the healths: none only if nobody is down, and
\* the other player when exactly one player is down.
WinnerSettled(s) ==
    /\ s.winner = NoWinner => \A p \in Players : ~Down(s, p)
    /\ \A p \in Players : (Down(s, p) /\ ~Down(s, opponent(p))) => s.winner = opponent(p)

\* A winner is set only when some player is down.
WinnerEarned(s) == s.winner # NoWinner => \E p \in Players : Down(s, p)

\* C18 as stated: after every step call that returns, the winner is null only
\* if both players have health > 0, the winner is the other player whenever
\* exactly one player has health <= 0, and no winner is set while both players
\* have health > 0.
C18_WinDetectionOriginal ==
    StepReturned => WinnerSettled(state) /\ WinnerEarned(state)

\* The latest call was a Play or an Attack that returned ok = true.
PlayOrAttackDone ==
    StepReturned /\ LastResult.ok /\ LastAction.type \in {"play", "attack"}

\* C18, amended: no winner is ever set while both players have health > 0;
\* after every Play or Attack that returns ok = true the winner is null only if
\* both players have health > 0 and is the other player when exactly one
\* player has health <= 0.  A call that returns ok = false and an EndTurn do
\* not run the win check: a player brought to health <= 0 by the applied
\* effects of a refused spell stays without a winner until the next successful
\* Play or Attack.
C18_WinDetection ==
    /\ WinnerEarned(state)
    /\ PlayOrAttackDone => WinnerSettled(state)
    /\ (Called /\ ~PlayOrAttackDone /\ ~Faulted) =>
          (WinnerSettled(pre) => WinnerSettled(state) \/ SpellPlayed)

\* A successful Play or Attack named the winner of a match in which a player
\* had been left at health <= 0 without a winner.
C18_Witness ==
    /\ PlayOrAttackDone
    /\ pre.winner = NoWinner /\ ~WinnerSettled(pre)
    /\ state.winner # NoWinner
    /\ \E p \in Players : Down(state, p) /\ ~Down(state, opponent(p))

\* No board slot of s holds a creature with health <= 0.
NoDead(s) ==
    \A p \in Players : \A i \in DOMAIN s.players[p].board :
        s.players[p].board[i] # None => s.players[p].board[i].health > 0

\* C19 as stated: after every step call that returns, successful or not, no
\* board slot of either player holds a creature with health <= 0.
C19_DeadSweepOriginal == StepReturned => NoDead(state)

\* The latest call ran the sweep: a spell play or an attack on a creature that
\* returned ok = true.
SweepDone ==
    /\ StepReturned /\ LastResult.ok
    /\ \/ SpellPlayed
       \/ LastAction.type = "attack" /\ LastAction.target.kind = "creature"

\* The card ids of the creatures of player p that the latest call took off the
\* board, in slot order from slot i on.
RECURSIVE RemovedFrom(_, _)
RemovedFrom(p, i) ==
    IF i >= pre.config.board_slots THEN <<>>
    ELSE (IF pre.players[p].board[i] # None /\ state.players[p].board[i] = None
          THEN <<pre.players[p].board[i].card_id>> ELSE <<>>)
         \o RemovedFrom(p, i + 1)

\* The spell card the latest call put on the discard of player p.
SpellDiscarded(p) ==
    IF SpellPlayed /\ LastAction.player = p
    THEN <<pre.players[p].hand[LastAction.hand_index + 1]>> ELSE <<>>

\* C19, amended: after every spell play and every attack on a creature that
\* returns ok = true, no board slot of either player holds a creature with
\* health <= 0, and the card id of each creature taken off a board was appended
\* exactly once to its owner's discard.  The other calls do not sweep: a
\* creature brought to health <= 0 by the applied effects of a refused spell
\* stays on the board, and that is the only way one gets there.
C19_DeadSweep ==
    /\ SweepDone =>
          /\ NoDead(state)
          /\ \A p \in Players :
                state.players[p].discard =
                    pre.players[p].discard \o SpellDiscarded(p) \o RemovedFrom(p, 0)
    /\ (StepReturned /\ ~SweepDone) =>
          /\ \A p \in Players : RemovedFrom(p, 0) = <<>>
          /\ (NoDead(pre) /\ ~NoDead(state)) => (SpellPlayed /\ ~LastResult.ok)

\* An attack on a creature in which the attacker and the defender both died:
\* each is gone from its board and on its owner's discard.
C19_Witness ==
    /\ SweepDone /\ LastAction.type = "attack"
    /\ \A p \in Players : Len(RemovedFrom(p, 0)) = 1

(***************************************************************************)
(* The AI turn                                                             *)
(***************************************************************************)
\* C20: AI turn termination.  A running ai_take_turn call has made at most as
\* many step calls as the player's hand held when it began, plus the board
\* slots, plus one: each card played at most once, each creature attacking at
\* most once, then one EndTurn.
C20_AiTurnBounded ==
    ai # None => AiCalls <= ai.hand + state.config.board_slots + 1

(***************************************************************************)
(* Turn-start draw                                                         *)
(***************************************************************************)
\* C21: turn-start draw.  The start of a turn draws nothing when the player's
\* turns_taken is 0 and otherwise moves exactly one card from the end of that
\* player's deck to the end of the hand; with an empty deck the draw does
\* nothing, records no event, changes no health and sets no winner;
\* turns_taken grows by exactly 1 in every case.
C21_TurnStartDraw ==
    TurnStarted =>
        LET q == state.current_player
            before == pre.players[q]
            after == state.players[q]
            moved == before.turns_taken > 0 /\ Len(before.deck) > 0
        IN  /\ after.turns_taken = before.turns_taken + 1
            /\ IF moved
               THEN /\ after.deck = SubSeq(before.deck, 1, Len(before.deck) - 1)
                    /\ after.hand = Append(before.hand, before.deck[Len(before.deck)])
               ELSE /\ after.deck = before.deck
                    /\ after.hand = before.hand
            /\ Len(state.event_log) = Len(pre.event_log) + (IF moved THEN 3 ELSE 2)
            /\ \A p \in Players : state.players[p].health = pre.players[p].health
            /\ state.winner = pre.winner

\* A turn after the player's first started on an empty deck.
C21_Witness ==
    /\ TurnStarted
    /\ pre.players[state.current_player].turns_taken > 0
    /\ Len(pre.players[state.current_player].deck) = 0

(***************************************************************************)
(* Playing cards                                                           *)
(***************************************************************************)
\* C22: a Play of a creature card the current player can pay for succeeds when
\* the player's board has an empty slot: the new creature stands in the
\* lowest-index empty slot with the card's base attack and health, its
\* keywords, has_attacked false and summoning_sick true unless the card has
\* Haste; every other slot of the board, the deck and the discard are as
\* before, the energy is lower by exactly the card's cost and the hand has lost
\* exactly the entry at hand_index.  When the board has no empty slot the Play
\* returns ok = false with "Board is full." and energy and hand are unchanged.
C22_CreaturePlay ==
    LET p == LastAction.player
        before == pre.players[p]
        after == state.players[p]
        card_id == before.hand[LastAction.hand_index + 1]
        card == CardGet(card_id)
        empties == {i \in DOMAIN before.board : before.board[i] = None}
        slot == CHOOSE i \in empties : \A j \in empties : i <= j
    IN  (/\ Called /\ LastAction.type = "play" /\ pre.winner = NoWinner
         /\ p = pre.current_player
         /\ LastAction.hand_index \in 0..(Len(before.hand) - 1)
         /\ card.type = "creature"
         /\ card.cost <= before.energy)
        => IF empties = {}
           THEN /\ ~LastResult.ok /\ LastResult.error = "Board is full."
                /\ after.energy = before.energy
                /\ after.hand = before.hand
           ELSE /\ LastResult.ok
                /\ after.board =
                      [before.board EXCEPT ![slot] =
                          [card_id |-> card_id,
                           attack |-> card.creature_stats.attack,
                           health |-> card.creature_stats.health,
                           keywords |-> card.keywords,
                           summoning_sick |-> "Haste" \notin card.keywords,
                           has_attacked |-> FALSE]]
                /\ after.energy = before.energy - card.cost
                /\ after.hand = ListPop(before.hand, LastAction.hand_index)
                /\ after.deck = before.deck
                /\ after.discard = before.discard

\* A creature card was played into slot 1 of a board whose slot 0 was taken,
\* at a cost above zero.
C22_Witness ==
    /\ Called /\ LastAction.type = "play" /\ LastResult.ok
    /\ PlayedCard.type = "creature" /\ PlayedCard.cost > 0
    /\ pre.players[LastAction.player].board[0] # None
    /\ state.players[LastAction.player].board[1] # pre.players[LastAction.player].board[1]

\* C23: a successful spell Play removes exactly the entry at hand_index from the
\* player's hand (the cards its Draw effects drew follow the remaining entries),
\* appends the card id to the player's discard exactly once, right after the
\* entries the discard held, and lowers the player's energy by exactly the
\* card's cost; a Play by the current player whose hand_index is outside the
\* hand, or whose card costs more than the player's energy, returns ok = false.
C23_SpellPlay ==
    LET p == LastAction.player
        before == pre.players[p]
        after == state.players[p]
        idx == LastAction.hand_index
        card_id == before.hand[idx + 1]
        drawn == Len(before.deck) - Len(after.deck)
        Count(l) == Cardinality({k \in 1..Len(l) : l[k] = card_id})
    IN  /\ (SpellPlayed /\ LastResult.ok)
           => /\ after.hand = SubSeq(before.hand, 1, idx)
                              \o SubSeq(before.hand, idx + 2, Len(before.hand))
                              \o PoppedFrom(before.deck, drawn)
              /\ SubSeq(after.discard, 1, Len(before.discard) + 1)
                    = Append(before.discard, card_id)
              /\ Count(after.discard) = Count(before.discard) + 1
              /\ after.energy = before.energy - PlayedCard.cost
        /\ (/\ Called /\ LastAction.type = "play" /\ pre.winner = NoWinner
            /\ p = pre.current_player)
           => /\ idx \notin 0..(Len(before.hand) - 1)
                 => ~LastResult.ok /\ LastResult.error = "Invalid hand index."
              /\ (idx \in 0..(Len(before.hand) - 1) /\ PlayedCard.cost > before.energy)
                 => ~LastResult.ok /\ LastResult.error = "Not enough energy."

\* A spell was played from inside the hand, its resolution sending a creature
\* of the same player to the discard after it.
C23_Witness ==
    /\ SpellPlayed /\ LastResult.ok
    /\ LastAction.hand_index < Len(pre.players[LastAction.player].hand) - 1
    /\ Len(state.players[LastAction.player].discard)
          > Len(pre.players[LastAction.player].discard) + 1

(***************************************************************************)
(* A third specification of the match: the calls of the player whose turn  *)
(* it is, followed over more calls than Spec follows, from the first setup *)
(* (player 0 holds a Haste creature it can pay for on its first turn).     *)
(***************************************************************************)
\* The most step calls of a behaviour of SpecTurns.
MaxTurnSteps == 5

\* One step call by the current player, with any of the caller's inputs.
TurnCall ==
    /\ Len(submitted) < MaxTurnSteps /\ ~Faulted
    /\ \E a \in {b \in PlayInputs(state) \cup AttackInputs(state) \cup EndTurnInputs :
                    b.player = state.current_player} :
          Call(state, a, "caller")
    /\ UNCHANGED ai

\* The matches new_match builds from the first and the third setup.
InitTurns == Init /\ setup.seed \in {1, 3}

SpecTurns == InitTurns /\ [][TurnCall]_vars

\* C24: one attack per creature per turn.  An Attack by the current player
\* with a creature free of summoning sickness whose has_attacked flag is set
\* returns ok = false with "Already attacked."; a successful attack sets the
\* flag of the attacker (when it is still on the board), and nothing else sets
\* a flag; a set flag is cleared only by the start of a turn of the creature's
\* controller, which clears the flag of every creature of that player; and an
\* Attack at a valid target with a creature whose flag is clear and which is
\* free of summoning sickness returns ok = true.
C24_OneAttackPerTurn ==
    /\ (AttackWithCreature /\ ~Attacker.summoning_sick /\ Attacker.has_attacked)
       => ~LastResult.ok /\ LastResult.error = "Already attacked."
    /\ (AttackWithCreature /\ ~Attacker.summoning_sick /\ ~Attacker.has_attacked
        /\ LastAction.target \in Elems(get_valid_attack_targets(pre, LastAction.player)))
       => LastResult.ok
    /\ Attacked
       => LET mine == state.players[LastAction.player].board[LastAction.attacker_slot]
          IN  mine # None => mine.has_attacked
    /\ TurnStarted
       => \A i \in DOMAIN state.players[state.current_player].board :
             LET c == state.players[state.current_player].board[i]
             IN  c # None => ~c.has_attacked
    /\ StepReturned
       => \A p \in Players : \A i \in DOMAIN state.players[p].board :
             LET old == pre.players[p].board[i]
                 new == state.players[p].board[i]
             IN  (old # None /\ new # None)
                 => /\ (old.has_attacked /\ ~new.has_attacked)
                       => TurnStarted /\ state.current_player = p
                    /\ (~old.has_attacked /\ new.has_attacked)
                       => /\ Attacked /\ LastAction.player = p
                          /\ LastAction.attacker_slot = i

\* A creature that attacked in an earlier turn of its controller attacked again
\* after the start of the controller's next turn, no creature having died.
C24_Witness ==
    /\ Attacked
    /\ \E k \in 1..Len(submitted) : \E j \in (k + 1)..Len(submitted) :
          /\ submitted[k].type = "attack" /\ results[k].ok
          /\ submitted[k].player = LastAction.player
          /\ submitted[k].attacker_slot = LastAction.attacker_slot
          /\ submitted[j].type = "end_turn" /\ results[j].ok
          /\ submitted[j].player = opponent(LastAction.player)
    /\ \A k \in 1..Len(state.event_log) : state.event_log[k].type # "CREATURE_DIED"

(***************************************************************************)
(* Combat                                                                  *)
(***************************************************************************)
\* C25: combat between creatures is simultaneous.  After a successful Attack
\* on a creature the defender's health is its health before less the
\* attacker's attack before, and the attacker's health is its health before
\* less the defender's attack before, whether or not the defender dies; each of
\* the two whose health is then <= 0 is gone from its board, and no board holds
\* a creature with health <= 0.
C25_Combat ==
    (Attacked /\ LastAction.target.kind = "creature")
    => LET p == LastAction.player
           q == opponent(p)
           a == LastAction.attacker_slot
           d == LastAction.target.slot
           defender == pre.players[q].board[d]
           attacker_health == Attacker.health - defender.attack
           defender_health == defender.health - Attacker.attack
       IN  /\ state.players[q].board[d] =
                 IF defender_health <= 0 THEN None
                 ELSE [defender EXCEPT !.health = defender_health]
           /\ state.players[p].board[a] =
                 IF attacker_health <= 0 THEN None
                 ELSE [Attacker EXCEPT !.health = attacker_health, !.has_attacked = TRUE]
           /\ NoDead(state)

\* An attack killed the defender and the attacker took the defender's attack.
C25_Witness ==
    /\ Attacked /\ LastAction.target.kind = "creature"
    /\ state.players[opponent(LastAction.player)].board[LastAction.target.slot] = None
    /\ pre.players[opponent(LastAction.player)].board[LastAction.target.slot].attack > 0
    /\ state.players[LastAction.player].board[LastAction.attacker_slot] # None

\* C26 as stated: a successful Attack on the player lowers the defending
\* player's health by the attacker's full attack (below zero if need be), the
\* events it records report dealt = min(health before, attack), and no other
\* field of the defending player changes.
C26_AttackPlayerOriginal ==
    (Attacked /\ LastAction.target.kind = "player")
    => LET q == opponent(LastAction.player)
           log == state.event_log
       IN  /\ state.players[q] =
                 [pre.players[q] EXCEPT !.health = @ - Attacker.attack]
           /\ \E k \in (Len(pre.event_log) + 1)..Len(log) : log[k].type = "ATTACK_PLAYER"
           /\ \A k \in (Len(pre.event_log) + 1)..Len(log) :
                 log[k].type \in {"DAMAGE_PLAYER", "ATTACK_PLAYER"}
                 => log[k].dealt = Min(pre.players[q].health, Attacker.attack)

\* C26, amended: the same for an attacker whose attack is above zero; an
\* attacker whose attack is zero or less (a Buff brought it there) leaves the
\* defending player's health as it was, records no damage event and reports
\* dealt = 0 in the attack event.
C26_AttackPlayer ==
    (Attacked /\ LastAction.target.kind = "player")
    => LET q == opponent(LastAction.player)
           log == state.event_log
           hits == Attacker.attack > 0
       IN  /\ state.players[q] =
                 [pre.players[q] EXCEPT !.health =
                     IF hits THEN @ - Attacker.attack ELSE @]
           /\ \E k \in (Len(pre.event_log) + 1)..Len(log) : log[k].type = "ATTACK_PLAYER"
           /\ \A k \in (Len(pre.event_log) + 1)..Len(log) :
                 /\ log[k].type = "DAMAGE_PLAYER" => hits
                 /\ log[k].type \in {"DAMAGE_PLAYER", "ATTACK_PLAYER"}
                    => log[k].dealt = IF hits
                                      THEN Min(pre.players[q].health, Attacker.attack)
                                      ELSE 0

\* An attack on the player took the defending player's health below zero, the
\* reported damage being smaller than the attack.
C26_Witness ==
    /\ Attacked /\ LastAction.target.kind = "player"
    /\ state.players[opponent(LastAction.player)].health < 0
    /\ pre.players[opponent(LastAction.player)].health > 0

(***************************************************************************)
(* Ending a turn                                                           *)
(***************************************************************************)
\* C27: the current player changes only through a successful EndTurn.  An
\* EndTurn by the current player of a match without a winner returns ok = true
\* and makes the other player the current player; a call that leaves another
\* current player than it found is a successful EndTurn, so no Play, no Attack
\* and no failed EndTurn changes the current player.
C27_CurrentPlayer ==
    Called
    => /\ (/\ LastAction.type = "end_turn" /\ pre.winner = NoWinner
           /\ LastAction.player = pre.current_player)
          => /\ LastResult.ok
             /\ state.current_player = opponent(pre.current_player)
       /\ state.current_player # pre.current_player
          => LastAction.type = "end_turn" /\ LastResult.ok

\* Player 1 ended its turn, handing the turn back to player 0, after a call
\* that was rejected.
C27_Witness ==
    /\ TurnStarted /\ LastAction.player = 1 /\ state.current_player = 0
    /\ \E k \in 1..(Len(submitted) - 1) : ~results[k].ok

\* C28: the order of a successful EndTurn by player p.  The event log gains,
\* in this order, a turn-ended event for p, a card-drawn event for the other
\* player q naming the card drawn when q's turn draws (q had taken a turn
\* before and its deck held a card: turns_taken is read before it is
\* incremented) and none otherwise, and a turn-started event for q carrying q's
\* new energy_max, which is the ramped value.
C28_EndTurnOrder ==
    TurnStarted
    => LET p == LastAction.player
           q == opponent(p)
           before == pre.players[q]
           draws == before.turns_taken > 0 /\ Len(before.deck) > 0
       IN  /\ state.event_log =
                 pre.event_log
                 \o <<[type |-> "TURN_ENDED", player |-> p]>>
                 \o (IF draws
                     THEN <<[type |-> "CARD_DRAWN", player |-> q,
                             card_id |-> before.deck[Len(before.deck)]]>>
                     ELSE <<>>)
                 \o <<[type |-> "TURN_STARTED", player |-> q,
                       energy |-> state.players[q].energy_max]>>
           /\ state.players[q].energy_max =
                 Min(state.config.max_energy, before.energy_max + 1)
           /\ state.players[q].turns_taken = before.turns_taken + 1

\* An EndTurn started a turn that drew a card and raised the energy cap.
C28_Witness ==
    /\ TurnStarted
    /\ Len(state.event_log) = Len(pre.event_log) + 3
    /\ state.players[state.current_player].energy_max
          > pre.players[state.current_player].energy_max

(***************************************************************************)
(* Targets at resolution                                                   *)
(***************************************************************************)
\* C29: narrow enforcement at resolution.  A spell Play by the current player,
\* with enough energy and a supplied target, returns ok = false with an error
\* whenever the target is of the wrong kind or side for an effect of the
\* spell, although get_valid_targets_for_play lists that target: Damage at an
\* enemy creature aimed at a player or a friendly creature, Damage at the enemy
\* player aimed at anything else, Heal or Buff of an own creature aimed at a
\* player or an enemy creature, Buff of any creature aimed at a player.
C29_NarrowEnforcement ==
    (/\ StepReturned /\ SpellPlayed /\ pre.winner = NoWinner
     /\ LastAction.target # None
     /\ \E k \in 1..Len(PlayedCard.effects) :
           WrongKindOrSide(PlayedCard.effects[k], LastAction.target, LastAction.player))
    => ~LastResult.ok /\ LastResult.error # NoError

\* A Heal of an own creature aimed at an enemy creature that
\* get_valid_targets_for_play lists was refused.
C29_Witness ==
    /\ StepReturned /\ SpellPlayed /\ ~LastResult.ok
    /\ PlayedCard.effects[1].type = "heal"
    /\ LastAction.target # None
    /\ LastAction.target.kind = "creature"
    /\ LastAction.target.player = opponent(LastAction.player)
    /\ InList(LastAction.target,
              get_valid_targets_for_play(pre, LastAction.player,
                  pre.players[LastAction.player].hand[LastAction.hand_index + 1]))

(***************************************************************************)
(* Summon                                                                  *)
(***************************************************************************)
\* C30: Summon.  Each board has exactly board_slots slots in every state.  A
\* successful Play of a spell whose effects are all Summon effects places the
\* tokens its effects name, in the order of the effects, one by one into the
\* lowest-index empty slot of the player's board: min(total count, empty
\* slots) tokens enter, the j-th of them into the j-th lowest slot that was
\* empty, each with its card's attack, health and keywords and summoning_sick
\* true unless it has Haste; the occupied slots keep their creatures, the
\* tokens that find no slot are dropped without an error, and the closing
\* sweep takes off the creatures with health <= 0.
C30_Summon ==
    /\ state # None
       => \A p \in Players :
             DOMAIN state.players[p].board = 0..(state.config.board_slots - 1)
    /\ (/\ SpellPlayed /\ LastResult.ok
        /\ \A k \in 1..Len(PlayedCard.effects) : PlayedCard.effects[k].type = "summon")
       => LET p == LastAction.player
              effects == PlayedCard.effects
              before == pre.players[p].board
              empties == {i \in DOMAIN before : before[i] = None}
              Flat[k \in 0..Len(effects)] ==
                  IF k = 0 THEN <<>>
                  ELSE Flat[k - 1] \o [j \in 1..Max(0, effects[k].count) |->
                                          effects[k].token_card_id]
              tokens == Flat[Len(effects)]
              Rank(i) == Cardinality({e \in empties : e < i}) + 1
              Token(card_id) ==
                  [card_id |-> card_id,
                   attack |-> CardGet(card_id).creature_stats.attack,
                   health |-> CardGet(card_id).creature_stats.health,
                   keywords |-> CardGet(card_id).keywords,
                   summoning_sick |-> "Haste" \notin CardGet(card_id).keywords,
                   has_attacked |-> FALSE]
              Swept(c) == IF c # None /\ c.health <= 0 THEN None ELSE c
              log == state.event_log
          IN  /\ state.players[p].board =
                    [i \in DOMAIN before |->
                        IF before[i] # None THEN Swept(before[i])
                        ELSE IF Rank(i) <= Len(tokens)
                        THEN Swept(Token(tokens[Rank(i)]))
                        ELSE None]
              /\ Cardinality({k \in (Len(pre.event_log) + 1)..Len(log) :
                                 log[k].type = "CREATURE_SUMMONED"})
                    = Min(Len(tokens), Cardinality(empties))

\* Summon effects naming three tokens resolved on a board with one slot taken:
\* one token entered, the spell succeeding.
C30_Witness ==
    /\ SpellPlayed /\ LastResult.ok
    /\ PlayedCard.effects[1].type = "summon"
    /\ pre.players[LastAction.player].board[0] # None
    /\ pre.players[LastAction.player].board[1] = None
    /\ state.players[LastAction.player].board[1] # None

(***************************************************************************)
(* Partial application                                                     *)
(***************************************************************************)
\* C31: partial effect application is kept.  When a spell play is refused by
\* an effect after its first, the match is left as the effects before the
\* refusing one made it from the state before the play: the player's energy
\* and discard are as before the play, the card is back at its index in the
\* hand, and the health changes, drawn cards, buffs and tokens of the earlier
\* effects remain, with their events (preceded by the card-played event when
\* they recorded any).
C31_PartialApplication ==
    LET p == LastAction.player
        effects == PlayedCard.effects
        refusing == {k \in 1..Len(effects) : Refuses(effects[k], LastAction.target, p)}
        first == CHOOSE k \in refusing : \A j \in refusing : k <= j
        Applied[j \in 0..Len(effects)] ==
            IF j = 0 THEN pre
            ELSE EffectResolve(Applied[j - 1], p, effects[j], LastAction.target).state
        kept == Applied[first - 1]
        added == SubSeq(kept.event_log, Len(pre.event_log) + 1, Len(kept.event_log))
    IN  (/\ StepReturned /\ ~LastResult.ok /\ SpellPlayed /\ pre.winner = NoWinner
         /\ refusing # {} /\ first > 1)
        => /\ state.players[p].energy = pre.players[p].energy
           /\ state.players[p].discard = pre.players[p].discard
           /\ state.players[p].hand[LastAction.hand_index + 1]
                 = pre.players[p].hand[LastAction.hand_index + 1]
           /\ state.players = kept.players
           /\ state.event_log =
                 IF added = <<>> THEN pre.event_log
                 ELSE pre.event_log
                      \o <<[type |-> "CARD_PLAYED", player |-> p,
                            card_id |-> pre.players[p].hand[LastAction.hand_index + 1]]>>
                      \o added
           /\ state.winner = pre.winner /\ state.current_player = pre.current_player

\* A spell play was refused by a later effect after an earlier effect had
\* lowered the health of a creature, which stays lowered.
C31_Witness ==
    /\ StepReturned /\ ~LastResult.ok /\ SpellPlayed /\ LaterEffectRefused
    /\ LastAction.target # None /\ LastAction.target.kind = "creature"
    /\ InBoard(pre, LastAction.target.slot) /\ LastAction.target.slot >= 0
    /\ pre.players[LastAction.target.player].board[LastAction.target.slot] # None
    /\ state.players[LastAction.target.player].board[LastAction.target.slot] # None
    /\ state.players[LastAction.target.player].board[LastAction.target.slot].health
          < pre.players[LastAction.target.player].board[LastAction.target.slot].health

(***************************************************************************)
(* Play targets and the legal set                                          *)
(***************************************************************************)
\* C32: every spell Play that returns ok = true for a spell that needs a target
\* carried a target that get_valid_targets_for_play listed for the player and
\* the card in the state before the play; so a Play naming an empty board slot,
\* or no target, never succeeds for such a spell.
C32_TargetsValidated ==
    (SpellPlayed /\ LastResult.ok /\ NeedsTarget(PlayedCard))
    => /\ LastAction.target # None
       /\ InList(LastAction.target,
                 get_valid_targets_for_play(pre, LastAction.player,
                     pre.players[LastAction.player].hand[LastAction.hand_index + 1]))

(***************************************************************************)
(* The event log                                                           *)
(***************************************************************************)
\* C33: the event log is append-only across step calls.  After every step
\* call, accepted, rejected, rolled back or ended by an exception, the event
\* log before the call is a prefix of the event log after it.
C33_EventLogAppendOnly ==
    Called
    => /\ Len(pre.event_log) <= Len(state.event_log)
       /\ SubSeq(state.event_log, 1, Len(pre.event_log)) = pre.event_log

\* A spell play was rolled back, its card-played event taken off the log
\* again: the log is as it was before the call.
C33_Witness ==
    /\ StepReturned /\ SpellPlayed /\ pre.winner = NoWinner /\ ~LastResult.ok
    /\ state.event_log = pre.event_log
    /\ Len(pre.event_log) > 1

(***************************************************************************)
(* The AI's choices                                                        *)
(***************************************************************************)
\* C34: the AI's attack preference.  An Attack the AI submits strikes the
\* lowest-health Guard when the defender has a Guard; otherwise, when the
\* attacker can kill an enemy creature and survive it, such a creature of the
\* highest attack; otherwise the enemy player; a creature outside these cases
\* is never struck while the enemy player is a legal target.
C34_AiAttackPreference ==
    (Called /\ LastResult.by = "ai" /\ LastAction.type = "attack")
    => LET enemy == opponent(LastAction.player)
           guards == GuardTargets(pre, enemy)
           trades == {t \in CreatureTargets(pre, enemy) :
                         /\ Attacker.attack >= pre.players[enemy].board[t.slot].health
                         /\ Attacker.health > pre.players[enemy].board[t.slot].attack}
           target == LastAction.target
       IN  IF guards # {}
           THEN /\ target \in guards
                /\ \A t \in guards : pre.players[enemy].board[target.slot].health
                                        <= pre.players[enemy].board[t.slot].health
           ELSE IF trades # {}
           THEN /\ target \in trades
                /\ \A t \in trades : pre.players[enemy].board[target.slot].attack
                                        >= pre.players[enemy].board[t.slot].attack
           ELSE target = player_target(enemy)

C36_PlayerHealthCap ==
    /\ \A p \in Players : state.players[p].health <= state.config.starting_health
    /\ Called
       => \A p \in Players :
            (state.players[p].health > pre.players[p].health)
            => LET before == pre.players[p].health
                   after == state.players[p].health
                   cap == pre.config.starting_health
               IN  /\ LastAction.player = p
                   /\ \/ /\ SpellPlayed
                         /\ \E k \in 1..Len(PlayedCard.effects) :
                               /\ PlayedCard.effects[k].type = "heal"
                               /\ PlayedCard.effects[k].target = "self_player"
                               /\ after = Min(cap, before + PlayedCard.effects[k].amount)
                      \/ /\ Attacked /\ "Lifesteal" \in Attacker.keywords
                         /\ after = Min(cap, before + LimitedDamage)

\* A Heal{self_player} spell raised the health of a damaged player, the cap
\* at starting health cutting the heal below the spell's amount.
C36_Witness ==
    /\ SpellPlayed /\ LastResult.ok
    /\ PlayedCard.effects[1].type = "heal" /\ PlayedCard.effects[1].target = "self_player"
    /\ state.players[LastAction.player].health > pre.players[LastAction.player].health
    /\ state.players[LastAction.player].health = pre.config.starting_health
    /\ pre.players[LastAction.player].health + PlayedCard.effects[1].amount
          > pre.config.starting_health

\* C37: energy bounds.  In every reachable state each player's energy lies
\* between zero and that player's energy_max, which is at most
\* config.max_energy; a Play that returns ok = false, refused outright or
\* rolled back, leaves every player's energy as it was; a Play that returns
\* ok = true takes the card's cost off the player's energy and leaves it
\* non-negative.
C37_EnergyBounds ==
    /\ \A p \in Players :
          /\ 0 <= state.players[p].energy
          /\ state.players[p].energy <= state.players[p].energy_max
          /\ state.players[p].energy_max <= state.config.max_energy
    /\ (StepReturned /\ LastAction.type = "play" /\ ~LastResult.ok)
       => \A p \in Players : state.players[p].energy = pre.players[p].energy
    /\ (StepReturned /\ LastAction.type = "play" /\ LastResult.ok)
       => /\ state.players[LastAction.player].energy
                = pre.players[LastAction.player].energy - PlayedCard.cost
          /\ state.players[LastAction.player].energy >= 0
          /\ state.players[opponent(LastAction.player)].energy
                = pre.players[opponent(LastAction.player)].energy

\* A spell that costs energy was paid for, refused by its effect and rolled
\* back: the player's energy is again what it was before the play.
C37_Witness ==
    /\ SpellPlayed /\ StepReturned /\ ~LastResult.ok /\ pre.winner = NoWinner
    /\ PlayedCard.cost > 0
    /\ state.players[LastAction.player].energy = pre.players[LastAction.player].energy
    /\ state.players[LastAction.player].energy > 0

\* C38: turn bookkeeping.  In every reachable state turns_taken of player 0
\* minus turns_taken of player 1 is 1 when player 0 is the current player and
\* 0 when player 1 is, and each player's energy_max is
\* min(config.max_energy, that player's turns_taken).
C38_TurnBookkeeping ==
    /\ state.players[0].turns_taken - state.players[1].turns_taken
          = (IF state.current_player = 0 THEN 1 ELSE 0)
    /\ \A p \in Players :
          state.players[p].energy_max
             = Min(state.config.max_energy, state.players[p].turns_taken)

\* Player 0 is in a turn past the energy ramp: more turns taken than
\* config.max_energy, energy_max held at the cap, player 1 one turn behind.
C38_Witness ==
    /\ Called /\ LastAction.type = "end_turn" /\ LastResult.ok
    /\ state.current_player = 0
    /\ state.players[0].turns_taken > state.config.max_energy
    /\ state.players[0].energy_max = state.config.max_energy
    /\ state.players[1].turns_taken = state.players[0].turns_taken - 1

\* C39: an Attack never increases the health of a creature.  After every
\* successful Attack at a creature, the attacker and the defender, when still
\* on the board, have at most the health they had before the attack, whatever
\* the sign of either creature's attack.
C39_AttackNeverHeals ==
    (Attacked /\ LastAction.target.kind = "creature")
    => LET own == LastAction.player
           enemy == LastAction.target.player
           a == LastAction.attacker_slot
           d == LastAction.target.slot
       IN  /\ (state.players[own].board[a] # None)
              => state.players[own].board[a].health <= pre.players[own].board[a].health
           /\ (state.players[enemy].board[d] # None)
              => state.players[enemy].board[d].health <= pre.players[enemy].board[d].health

\* C40: every action the AI submits is accepted.  Each step call made by
\* ai_take_turn that returns a StepResult returns ok = true.
C40_AiActionsAccepted ==
    (StepReturned /\ LastResult.by = "ai") => LastResult.ok

====
